---------------------------- MODULE Spec2Model ----------------------------
(***************************************************************************)
(* Five ordered integer-key index engines: BTree, BPlusTree, RMI,          *)
(* FitingTree and RadixSpline.  Each engine is one state machine over its  *)
(* own variables; SpecBT, SpecBP, SpecRMI, SpecFT and SpecRS run one       *)
(* engine each and leave the other engines' variables alone.               *)
(*                                                                         *)
(* Conventions.                                                            *)
(*  - C++ vectors are sequences; At(s, i) reads the element at the C++     *)
(*    (zero-based) index i.                                                *)
(*  - KeyType and size_t are unsigned integers of KeyBits bits: unsigned   *)
(*    subtraction and addition wrap modulo KeyMod.                         *)
(*  - A double is modelled by the exact rational it stands for, kept as a  *)
(*    numerator over a positive denominator; the key ranges are far below  *)
(*    the mantissa width.                                                  *)
(*  - A query whose result rests on undefined behaviour returns the SET of *)
(*    results the build can produce; a defined query returns a singleton.  *)
(***************************************************************************)
EXTENDS Integers, Sequences, FiniteSets, TLC

(***************************************************************************)
(* Bounds of the model.                                                    *)
(***************************************************************************)
\* Keys are drawn from 0..MaxKey, query keys from 0..MaxKey+1.
MaxKey == 5
\* Longest vector handed to a build.
MaxLen == 4
\* Width of KeyType and size_t (64 in the source, scaled down).
KeyBits == 12
\* Largest num_radix_bits handed to RadixSpline::build.
MaxRadixBits == 2
\* num_radix_bits of RadixSpline's default constructor (18 in the source,
\* scaled down); build overwrites it and the table before a query reads them.
DefaultRadixBits == 3
\* FitingTree keys are drawn from 0..FT_MaxKey, epsilon from 0..MaxEpsilon.
FT_MaxKey == 7
MaxEpsilon == 1
\* Inserts stop when the key array holds FT_MaxData keys; a run calls build,
\* or insertInPlace on an empty index, which builds too, MaxBuilds times at most.
FT_MaxData == 5
MaxBuilds == 1
\* Largest number of second-stage models in a model file.
MaxBranch == 2
\* The trees are instantiated with ORDER in 2..MaxOrder (5 in the source).
MaxOrder == 3
\* Insert-only runs of a tree draw their keys from 0..BT_MaxKey.
BT_MaxKey == 8
\* Runs that mix inserts and removes draw their keys from 0..BT_MixMaxKey.
BT_MixMaxKey == 7
\* An instance that is built more than once builds its segments at most
\* MaxRebuilds times, from keys in 0..FT_RebuildMaxKey.
MaxRebuilds == 2
FT_RebuildMaxKey == 3
\* An instance that takes delta insertions is built from FT_DeltaLen keys in
\* 0..FT_DeltaMaxKey and runs buildSegments at most MaxDeltaBuilds times.
FT_DeltaLen == 10
FT_DeltaMaxKey == 10
MaxDeltaBuilds == 2
\* Vectors that need not be sorted or free of repeats hold at most
\* ArbitraryMaxLen keys from 0..ArbitraryMaxKey.
ArbitraryMaxKey == 1
ArbitraryMaxLen == 3
\* Runs that insert keys more than once draw them from 0..BT_CopyMaxKey and
\* keep at most BT_MaxStored keys in the tree.
BT_CopyMaxKey == 2
BT_MaxStored == 8
\* A BPlusTree that takes copies holds keys in 0..BP_CopyMaxKey, at most
\* BP_MaxStored of them counting the copies.
BP_CopyMaxKey == 2
BP_MaxStored == 9

KeyMod == 2 ^ KeyBits
Keys == 0 .. MaxKey
QueryKeys == 0 .. (MaxKey + 1)
BT_Keys == 0 .. BT_MaxKey
BT_MixKeys == 0 .. BT_MixMaxKey
BT_CopyKeys == 0 .. BT_CopyMaxKey
BP_CopyKeys == 0 .. BP_CopyMaxKey
FT_Keys == 0 .. FT_MaxKey
FT_QueryKeys == 0 .. (FT_MaxKey + 1)

(***************************************************************************)
(* Helpers shared by the engines.                                          *)
(***************************************************************************)
At(s, i) == s[i + 1]

Min2(a, b) == IF a < b THEN a ELSE b

Max2(a, b) == IF a > b THEN a ELSE b

Abs(a) == IF a < 0 THEN -a ELSE a

\* Unsigned KeyType / size_t arithmetic.
USub(a, b) == (a - b) % KeyMod

UAdd(a, b) == (a + b) % KeyMod

IsStrictlySorted(s) == \A i \in 1 .. (Len(s) - 1) : s[i] < s[i + 1]

\* std::lower_bound(first, last, value) over s, as libstdc++ runs it: the
\* binary search itself, so that it is defined on any contents of s.
\* first and last are zero-based positions; the result is a position.
RECURSIVE LowerBoundLoop(_, _, _, _)
LowerBoundLoop(s, first, len, value) ==
    IF len <= 0 THEN first
    ELSE LET half == len \div 2
             mid == first + half
         IN  IF At(s, mid) < value
             THEN LowerBoundLoop(s, mid + 1, len - half - 1, value)
             ELSE LowerBoundLoop(s, first, half, value)

LowerBound(s, first, last, value) == LowerBoundLoop(s, first, last - first, value)

\* std::upper_bound(first, last, value) over s.
RECURSIVE UpperBoundLoop(_, _, _, _)
UpperBoundLoop(s, first, len, value) ==
    IF len <= 0 THEN first
    ELSE LET half == len \div 2
             mid == first + half
         IN  IF value < At(s, mid)
             THEN UpperBoundLoop(s, first, half, value)
             ELSE UpperBoundLoop(s, mid + 1, len - half - 1, value)

UpperBound(s, first, last, value) == UpperBoundLoop(s, first, last - first, value)

\* The position of key in a sorted sequence of distinct keys, or -1.
TruePosition(s, key) ==
    IF \E i \in 1 .. Len(s) : s[i] = key
    THEN (CHOOSE i \in 1 .. Len(s) : s[i] = key) - 1
    ELSE -1

\* The keys of s inside [lo, hi], in the order of s.
RECURSIVE KeysInRange(_, _, _)
KeysInRange(s, lo, hi) ==
    IF s = <<>> THEN <<>>
    ELSE IF lo <= Head(s) /\ Head(s) <= hi
         THEN <<Head(s)>> \o KeysInRange(Tail(s), lo, hi)
         ELSE KeysInRange(Tail(s), lo, hi)

VARIABLES
    \* RadixSpline members
    rs_data, rs_min_key, rs_max_key, rs_num_keys, rs_spline_points,
    rs_num_radix_bits, rs_num_radix_buckets, rs_radix_table,
    \* BTree<KeyType, ORDER>: the template parameter, root and size_; the
    \* keys the callers have put in and not taken out; the last call with its
    \* return value, the branches it took and the reads its splits made; and
    \* whether a checked operator[] has terminated the process; and the same
    \* keys as bt_keys, ascending, once per copy put in and not taken out.
    bt_order, bt_root, bt_size, bt_keys, bt_last, bt_aborted, bt_stored,
    \* BPlusTree<KeyType, ORDER>: the template parameter; the nodes made so
    \* far, by address (a shared_ptr<Node> is an address, 0 is nullptr); root
    \* and size_; the keys the callers have put in; the last call.
    bp_order, bp_nodes, bp_root, bp_size, bp_keys, bp_last, bp_stored,
    \* RMI members; the last call with its return value
    rmi_branch_factor, rmi_stage1_model, rmi_stage2_models, rmi_min_errors,
    rmi_max_errors, rmi_data, rmi_last,
    \* FitingTree members; the last call with its return value; whether a
    \* call has left the process dead or its memory corrupted; the
    \* number of calls so far that built the segments; and the span
    \* (end_position - start_position) each segment had when buildSegments
    \* last ran.
    ft_epsilon, ft_segments, ft_segment_index, ft_data, ft_delta_buffers,
    ft_last, ft_corrupt, ft_builds, ft_built_spans

rs_vars == <<rs_data, rs_min_key, rs_max_key, rs_num_keys, rs_spline_points,
             rs_num_radix_bits, rs_num_radix_buckets, rs_radix_table>>

bt_vars == <<bt_order, bt_root, bt_size, bt_keys, bt_last, bt_aborted, bt_stored>>

bp_vars == <<bp_order, bp_nodes, bp_root, bp_size, bp_keys, bp_last, bp_stored>>

rmi_vars == <<rmi_branch_factor, rmi_stage1_model, rmi_stage2_models, rmi_min_errors,
              rmi_max_errors, rmi_data, rmi_last>>

ft_vars == <<ft_epsilon, ft_segments, ft_segment_index, ft_data, ft_delta_buffers,
             ft_last, ft_corrupt, ft_builds, ft_built_spans>>

vars == <<rs_vars, bt_vars, bp_vars, rmi_vars, ft_vars>>

\* What each engine's calls leave alone.
not_rs_vars == <<bt_vars, bp_vars, rmi_vars, ft_vars>>
not_bt_vars == <<rs_vars, bp_vars, rmi_vars, ft_vars>>
not_bp_vars == <<rs_vars, bt_vars, rmi_vars, ft_vars>>
not_rmi_vars == <<rs_vars, bt_vars, bp_vars, ft_vars>>
not_ft_vars == <<rs_vars, bt_vars, bp_vars, rmi_vars>>

(***************************************************************************)
(* RadixSpline (radix_spline.h)                                            *)
(***************************************************************************)
\* RadixSpline(): the state after construction.
RS_Init ==
    /\ rs_data = <<>>
    /\ rs_min_key = 0
    /\ rs_max_key = 0
    /\ rs_num_keys = 0
    /\ rs_spline_points = <<>>
    /\ rs_num_radix_bits = DefaultRadixBits
    /\ rs_num_radix_buckets = 2 ^ DefaultRadixBits
    /\ rs_radix_table = [b \in 1 .. (2 ^ DefaultRadixBits + 1) |-> 0]

\* build, lines 75-86: one spline point per change of key.
RECURSIVE BuildSplinePoints(_, _, _)
BuildSplinePoints(data, i, points) ==
    IF i >= Len(data) THEN points
    ELSE LET key == At(data, i)
         IN  IF key # points[Len(points)].x
             THEN BuildSplinePoints(data, i + 1, Append(points, [x |-> key, y |-> i]))
             ELSE BuildSplinePoints(data, i + 1, points)

\* build, lines 92-93: the upper key boundary of bucket i.
BucketBoundary(min_key, max_key, num_buckets, i) ==
    UAdd(min_key, ((i + 1) * USub(max_key, min_key)) \div num_buckets)

\* build, lines 95-98: the cursor advances while the next point is inside.
RECURSIVE AdvanceSpline(_, _, _)
AdvanceSpline(points, idx, boundary) ==
    IF idx + 1 < Len(points) /\ At(points, idx + 1).x <= boundary
    THEN AdvanceSpline(points, idx + 1, boundary)
    ELSE idx

\* build, lines 89-100: the radix table entries of buckets i, i+1, ...
RECURSIVE FillRadixTable(_, _, _, _, _, _)
FillRadixTable(points, min_key, max_key, num_buckets, i, idx) ==
    IF i >= num_buckets THEN <<>>
    ELSE LET cur == AdvanceSpline(points, idx,
                        BucketBoundary(min_key, max_key, num_buckets, i))
         IN  <<cur>> \o FillRadixTable(points, min_key, max_key, num_buckets, i + 1, cur)

\* RadixSpline::build(keys, num_radix_bits).
RS_build(keys, num_radix_bits) ==
    LET min_key == IF keys = <<>> THEN 0 ELSE keys[1]
        max_key == IF keys = <<>> THEN 0 ELSE keys[Len(keys)]
        num_buckets == 2 ^ num_radix_bits
        pts0 == BuildSplinePoints(keys, 1, <<[x |-> min_key, y |-> 0]>>)
        pts == IF pts0[Len(pts0)].x # max_key
               THEN Append(pts0, [x |-> max_key, y |-> USub(Len(keys), 1)])
               ELSE pts0
    IN  /\ rs_data' = keys
        /\ rs_min_key' = min_key
        /\ rs_max_key' = max_key
        /\ rs_num_keys' = Len(keys)
        /\ rs_num_radix_bits' = num_radix_bits
        /\ rs_num_radix_buckets' = num_buckets
        /\ rs_spline_points' = pts
        /\ rs_radix_table' =
               Append(FillRadixTable(pts, min_key, max_key, num_buckets, 0, 0),
                      Len(pts) - 1)

\* RadixSpline::GetRadixIndex(key).
GetRadixIndex(key) ==
    IF key <= rs_min_key THEN 0
    ELSE IF key >= rs_max_key THEN rs_num_radix_buckets - 1
    ELSE Min2((USub(key, rs_min_key) * rs_num_radix_buckets)
                  \div USub(rs_max_key, rs_min_key),
              rs_num_radix_buckets - 1)

\* get_search_bound, lines 112-136: the spline segment used for key.
SplineSegment(key) ==
    LET size == Len(rs_spline_points)
        r0 == GetRadixIndex(key)
        radix_index == IF r0 >= Len(rs_radix_table) - 1
                       THEN Len(rs_radix_table) - 2 ELSE r0
        spline_start == At(rs_radix_table, radix_index)
        spline_end == At(rs_radix_table, radix_index + 1) + 1
        xs == [j \in 1 .. size |-> rs_spline_points[j].x]
        it == UpperBound(xs, spline_start, Min2(spline_end, size), key)
        seg == IF spline_start # spline_end /\ it # spline_start
               THEN it - 1 ELSE spline_start
    IN  IF seg >= size - 1 THEN (IF size >= 2 THEN size - 2 ELSE 0) ELSE seg

\* static_cast<double>(v) of an unsigned v.  A difference that wrapped is
\* 2^64 - c with c below 2^10, and the nearest double to it is 2^64 itself.
U2D(v) == IF v >= KeyMod \div 2 THEN KeyMod ELSE v

\* static_cast<size_t>(v) of the non-negative double num/den: the floor when
\* it fits size_t; undefined when it does not (x86-64 yields 0 there, AArch64
\* saturates).
DoubleToSize(num, den) ==
    IF num \div den < KeyMod THEN {num \div den} ELSE {0, KeyMod - 1}

\* RadixSpline::get_search_bound(key): the bounds the build can return.
get_search_bound(key) ==
    IF rs_data = <<>> \/ key <= rs_min_key THEN {[begin |-> 0, end |-> 1]}
    ELSE IF key >= rs_max_key
         THEN {[begin |-> USub(rs_num_keys, 1), end |-> rs_num_keys]}
    ELSE IF Len(rs_spline_points) <= 1
         THEN {[begin |-> 0, end |-> Len(rs_data)]}
    ELSE LET seg == SplineSegment(key)
             p1 == At(rs_spline_points, seg)
             p2 == At(rs_spline_points, seg + 1)
             dx == U2D(USub(key, p1.x))
             dy == p2.y - p1.y
             dx_full == U2D(USub(p2.x, p1.x))
             error == Abs(p2.y - p1.y)
             \* (dx * dy) / dx_full is of the order of 2^64 when key - p1.x
             \* wrapped: p1.y and error are then below half an ulp of it and
             \* adding them changes nothing.
             huge == dx = KeyMod /\ dx_full < KeyMod
             \* pos_estimate = est / dx_full
             est == IF huge THEN dx * dy ELSE p1.y * dx_full + dx * dy
             lo == IF huge THEN est ELSE Max2(0, est - error * dx_full)
             hi == IF huge THEN est ELSE est + (error + 1) * dx_full
             end == IF hi >= rs_num_keys * dx_full
                    THEN rs_num_keys ELSE hi \div dx_full
         IN  {[begin |-> b, end |-> end] : b \in DoubleToSize(lo, dx_full)}

\* RadixSpline::lookup(key) for one search bound.
RS_lookupIn(bound, key) ==
    LET begin == Min2(bound.begin, Len(rs_data))
        end == Min2(bound.end, Len(rs_data))
    IN  IF begin >= end \/ begin >= Len(rs_data) THEN -1
        ELSE LET it == LowerBound(rs_data, begin, end, key)
             IN  IF it # Len(rs_data) /\ At(rs_data, it) = key THEN it ELSE -1

\* RadixSpline::lookup(key): the results the build can return.
RS_lookup(key) ==
    IF rs_data = <<>> THEN {-1}
    ELSE {RS_lookupIn(b, key) : b \in get_search_bound(key)}

\* range_query, lines 206-209: emit from position it while D[it] <= end_key.
RECURSIVE RS_emit(_, _, _)
RS_emit(it, end_it, end_key) ==
    IF it # end_it /\ At(rs_data, it) <= end_key
    THEN <<At(rs_data, it)>> \o RS_emit(it + 1, end_it, end_key)
    ELSE <<>>

\* RadixSpline::range_query for one pair of search bounds.
RS_rangeIn(start_bound, end_bound, start_key, end_key) ==
    LET begin == start_bound.begin
        end == Min2(end_bound.end, Len(rs_data))
    IN  IF begin >= end \/ begin >= Len(rs_data) THEN <<>>
        ELSE RS_emit(LowerBound(rs_data, begin, end, start_key), end, end_key)

\* RadixSpline::range_query(start_key, end_key): the results the build can
\* return.
RS_range_query(start_key, end_key) ==
    IF rs_data = <<>> \/ start_key > end_key THEN {<<>>}
    ELSE {RS_rangeIn(sb, eb, start_key, end_key) :
              sb \in get_search_bound(start_key), eb \in get_search_bound(end_key)}

\* The vectors handed to build: every sorted vector of distinct keys.
RECURSIVE SortedSeq(_)
SortedSeq(S) ==
    IF S = {} THEN <<>>
    ELSE LET m == CHOOSE x \in S : \A y \in S : x <= y
         IN  <<m>> \o SortedSeq(S \ {m})

SortedInputs == {SortedSeq(S) : S \in {T \in SUBSET Keys : Cardinality(T) <= MaxLen}}

\* Any vector a caller can hand to a build: unsorted, with repeated keys.
ArbitraryInputs == UNION {[1 .. n -> 0 .. ArbitraryMaxKey] : n \in 0 .. ArbitraryMaxLen}

\* A call of build.
(***************************************************************************)
(* BTree<T, ORDER> (btree.h)                                               *)
(*                                                                         *)
(* A node is a record [is_leaf, keys, children]; a shared_ptr<Node> that   *)
(* has one owner is the node itself.  T is "KeyType" (an unsigned integer) *)
(* or "KeyIndex" (fiting_tree.h: a record [key, index] compared on key).   *)
(***************************************************************************)
\* T::operator< and friends.
TLess(T, a, b) == IF T = "KeyIndex" THEN a.key < b.key ELSE a < b

TEq(T, a, b) == IF T = "KeyIndex" THEN a.key = b.key ELSE a = b

TLessEq(T, a, b) == TLess(T, a, b) \/ TEq(T, a, b)

\* std::vector::insert(begin() + i, e) and erase(begin() + i).
InsertAt(s, i, e) == SubSeq(s, 1, i) \o <<e>> \o SubSeq(s, i + 1, Len(s))

RemoveAt(s, i) == SubSeq(s, 1, i) \o SubSeq(s, i + 2, Len(s))

\* The elements of s from zero-based index i on.
From(s, i) == SubSeq(s, i + 1, Len(s))

\* Node(leaf)
NewNode(leaf) == [is_leaf |-> leaf, keys |-> <<>>, children |-> <<>>]

\* BTree::split_child(parent, index, child) with child = parent.children[index].
\* Line 41 shrinks child->keys to mid elements and line 44 then reads
\* child->keys[mid], one past the new end: the storage is not released by a
\* shrinking resize and still holds the old middle key.  The result is the
\* new parent and that read (its index, the size of the vector it indexes,
\* and the value found).
BT_split_child(ORDER, parent, index) ==
    LET child == At(parent.children, index)
        mid == ORDER \div 2
        new_child == [is_leaf |-> child.is_leaf,
                      keys |-> From(child.keys, mid + 1),
                      children |-> IF child.is_leaf THEN <<>>
                                   ELSE From(child.children, mid + 1)]
        old_child == [is_leaf |-> child.is_leaf,
                      keys |-> SubSeq(child.keys, 1, mid),
                      children |-> IF child.is_leaf THEN child.children
                                   ELSE SubSeq(child.children, 1, mid + 1)]
        stale == At(child.keys, mid)
    IN  [node |-> [is_leaf |-> parent.is_leaf,
                   keys |-> InsertAt(parent.keys, index, stale),
                   children |-> InsertAt([parent.children EXCEPT ![index + 1] = old_child],
                                         index + 1, new_child)],
         read |-> [index |-> mid, size |-> Len(old_child.keys), value |-> stale]]

\* A scan that always answers the end of the node: it would leave the keys of
\* a node out of order.
BT_scan_back_append(T, keys, i, key) == Len(keys)

\* insert_non_full, lines 52-60 and 65-68: scan from the right for the slot.
RECURSIVE BT_scan_back(_, _, _, _)
BT_scan_back(T, keys, i, key) ==
    IF i >= 0 /\ TLess(T, key, At(keys, i))
    THEN BT_scan_back(T, keys, i - 1, key)
    ELSE i + 1

\* BTree::insert_non_full(node, key): the new node and the reads past the end
\* made by the splits on the way.
RECURSIVE BT_insert_non_full(_, _, _, _)
BT_insert_non_full(T, ORDER, node, key) ==
    LET i0 == BT_scan_back(T, node.keys, Len(node.keys) - 1, key)
    IN  IF node.is_leaf
        THEN [node |-> [node EXCEPT !.keys = InsertAt(node.keys, i0, key)],
              reads |-> <<>>]
        ELSE LET full == Len(At(node.children, i0).keys) = 2 * ORDER - 1
                 sp == BT_split_child(ORDER, node, i0)
                 n1 == IF full THEN sp.node ELSE node
                 i == IF full /\ TLess(T, At(n1.keys, i0), key) THEN i0 + 1 ELSE i0
                 sub == BT_insert_non_full(T, ORDER, At(n1.children, i), key)
             IN  [node |-> [n1 EXCEPT !.children[i + 1] = sub.node],
                  reads |-> (IF full THEN <<sp.read>> ELSE <<>>) \o sub.reads]

\* BTree::insert(key) on the tree rooted at root.
BT_insert(T, ORDER, root, key) ==
    IF Len(root.keys) = 2 * ORDER - 1
    THEN LET new_root == [is_leaf |-> FALSE, keys |-> <<>>, children |-> <<root>>]
             sp == BT_split_child(ORDER, new_root, 0)
             ins == BT_insert_non_full(T, ORDER, sp.node, key)
         IN  [node |-> ins.node, reads |-> <<sp.read>> \o ins.reads]
    ELSE BT_insert_non_full(T, ORDER, root, key)

\* search_internal, lines 85-88: the first slot whose key is not below key.
RECURSIVE BT_scan(_, _, _, _)
BT_scan(T, keys, i, key) ==
    IF i < Len(keys) /\ TLess(T, At(keys, i), key)
    THEN BT_scan(T, keys, i + 1, key)
    ELSE i

\* BTree::search_internal(node, key).
RECURSIVE BT_search_internal(_, _, _)
BT_search_internal(T, node, key) ==
    LET i == BT_scan(T, node.keys, 0, key)
    IN  IF i < Len(node.keys) /\ TEq(T, key, At(node.keys, i)) THEN TRUE
        ELSE IF node.is_leaf THEN FALSE
        ELSE BT_search_internal(T, At(node.children, i), key)

\* A walk over the keys of a node that never descends into children[i + 1].
RECURSIVE BT_range_walk_flat(_, _, _, _, _)
BT_range_walk_flat(T, node, i, start, end) ==
    IF i < Len(node.keys) /\ TLessEq(T, At(node.keys, i), end)
    THEN (IF TLessEq(T, start, At(node.keys, i)) THEN <<At(node.keys, i)>> ELSE <<>>)
         \o BT_range_walk_flat(T, node, i + 1, start, end)
    ELSE <<>>

\* BTree::range_search_internal(node, start, end, result): what it appends.
RECURSIVE BT_range_search_internal(_, _, _, _)
RECURSIVE BT_range_walk(_, _, _, _, _)
BT_range_walk(T, node, i, start, end) ==
    IF i < Len(node.keys) /\ TLessEq(T, At(node.keys, i), end)
    THEN (IF TLessEq(T, start, At(node.keys, i)) THEN <<At(node.keys, i)>> ELSE <<>>)
         \o (IF ~node.is_leaf /\ i + 1 < Len(node.children)
             THEN BT_range_search_internal(T, At(node.children, i + 1), start, end)
             ELSE <<>>)
         \o BT_range_walk(T, node, i + 1, start, end)
    ELSE <<>>

BT_range_search_internal(T, node, start, end) ==
    LET i == BT_scan(T, node.keys, 0, start)
    IN  (IF ~node.is_leaf
         THEN BT_range_search_internal(T, At(node.children, i), start, end)
         ELSE <<>>)
        \o BT_range_walk(T, node, i, start, end)

\* remove_internal, lines 149-153: the last key of the rightmost leaf.
RECURSIVE BT_predecessor(_)
BT_predecessor(current) ==
    IF current.is_leaf THEN At(current.keys, Len(current.keys) - 1)
    ELSE BT_predecessor(At(current.children, Len(current.children) - 1))

\* remove_internal, lines 159-163: the first key of the leftmost leaf.
RECURSIVE BT_successor(_)
BT_successor(current) ==
    IF current.is_leaf THEN At(current.keys, 0)
    ELSE BT_successor(At(current.children, 0))

\* BTree::borrow_from_prev(node, idx)
BT_borrow_from_prev(node, idx) ==
    LET child == At(node.children, idx)
        sibling == At(node.children, idx - 1)
        child2 == [is_leaf |-> child.is_leaf,
                   keys |-> <<At(node.keys, idx - 1)>> \o child.keys,
                   children |-> IF child.is_leaf THEN child.children
                                ELSE <<At(sibling.children, Len(sibling.children) - 1)>>
                                     \o child.children]
        sibling2 == [is_leaf |-> sibling.is_leaf,
                     keys |-> SubSeq(sibling.keys, 1, Len(sibling.keys) - 1),
                     children |-> IF child.is_leaf THEN sibling.children
                                  ELSE SubSeq(sibling.children, 1, Len(sibling.children) - 1)]
    IN  [is_leaf |-> node.is_leaf,
         keys |-> [node.keys EXCEPT ![idx] = At(sibling.keys, Len(sibling.keys) - 1)],
         children |-> [node.children EXCEPT ![idx] = sibling2, ![idx + 1] = child2]]

\* BTree::borrow_from_next(node, idx)
BT_borrow_from_next(node, idx) ==
    LET child == At(node.children, idx)
        sibling == At(node.children, idx + 1)
        child2 == [is_leaf |-> child.is_leaf,
                   keys |-> Append(child.keys, At(node.keys, idx)),
                   children |-> IF child.is_leaf THEN child.children
                                ELSE Append(child.children, At(sibling.children, 0))]
        sibling2 == [is_leaf |-> sibling.is_leaf,
                     keys |-> Tail(sibling.keys),
                     children |-> IF child.is_leaf THEN sibling.children
                                  ELSE Tail(sibling.children)]
    IN  [is_leaf |-> node.is_leaf,
         keys |-> [node.keys EXCEPT ![idx + 1] = At(sibling.keys, 0)],
         children |-> [node.children EXCEPT ![idx + 1] = child2, ![idx + 2] = sibling2]]

\* A merge that forgets the separator key of the parent.
BT_merge_children_drop(node, idx) ==
    LET child == At(node.children, idx)
        sibling == At(node.children, idx + 1)
        merged == [is_leaf |-> child.is_leaf,
                   keys |-> child.keys \o sibling.keys,
                   children |-> IF child.is_leaf THEN child.children
                                ELSE child.children \o sibling.children]
    IN  [is_leaf |-> node.is_leaf,
         keys |-> RemoveAt(node.keys, idx),
         children |-> RemoveAt([node.children EXCEPT ![idx + 1] = merged], idx + 1)]

\* BTree::merge_children(node, idx)
BT_merge_children(node, idx) ==
    LET child == At(node.children, idx)
        sibling == At(node.children, idx + 1)
        merged == [is_leaf |-> child.is_leaf,
                   keys |-> Append(child.keys, At(node.keys, idx)) \o sibling.keys,
                   children |-> IF child.is_leaf THEN child.children
                                ELSE child.children \o sibling.children]
    IN  [is_leaf |-> node.is_leaf,
         keys |-> RemoveAt(node.keys, idx),
         children |-> RemoveAt([node.children EXCEPT ![idx + 1] = merged], idx + 1)]

\* remove_internal, lines 176-189: refill children[idx] after a removal below.
BT_fix_child(ORDER, node, idx) ==
    IF idx > 0 /\ Len(At(node.children, idx - 1).keys) >= ORDER
    THEN [node |-> BT_borrow_from_prev(node, idx), ev |-> {"borrow_prev"}]
    ELSE IF idx < Len(node.children) - 1 /\ Len(At(node.children, idx + 1).keys) >= ORDER
    THEN [node |-> BT_borrow_from_next(node, idx), ev |-> {"borrow_next"}]
    ELSE IF idx > 0
    THEN [node |-> BT_merge_children(node, idx - 1), ev |-> {"merge_prev"}]
    ELSE [node |-> BT_merge_children(node, idx), ev |-> {"merge_next"}]

\* BTree::remove_internal(node, key) below the root test of lines 196-198:
\* the new node, the return value, the number of keys erased from leaves
\* (--size_) and the branches taken.
RECURSIVE BT_remove_internal(_, _, _, _)
BT_remove_internal(T, ORDER, node, key) ==
    LET idx == BT_scan(T, node.keys, 0, key)
    IN  IF idx < Len(node.keys) /\ TEq(T, key, At(node.keys, idx))
        THEN IF node.is_leaf
             THEN [node |-> [node EXCEPT !.keys = RemoveAt(node.keys, idx)],
                   found |-> TRUE, erased |-> 1, ev |-> {"leaf"}]
             ELSE IF Len(At(node.children, idx).keys) >= ORDER
             THEN LET predecessor == BT_predecessor(At(node.children, idx))
                      sub == BT_remove_internal(T, ORDER, At(node.children, idx), predecessor)
                  IN  [node |-> [node EXCEPT !.keys[idx + 1] = predecessor,
                                             !.children[idx + 1] = sub.node],
                       found |-> TRUE, erased |-> sub.erased,
                       ev |-> sub.ev \cup {"predecessor"}]
             ELSE IF Len(At(node.children, idx + 1).keys) >= ORDER
             THEN LET successor == BT_successor(At(node.children, idx + 1))
                      sub == BT_remove_internal(T, ORDER, At(node.children, idx + 1), successor)
                  IN  [node |-> [node EXCEPT !.keys[idx + 1] = successor,
                                             !.children[idx + 2] = sub.node],
                       found |-> TRUE, erased |-> sub.erased,
                       ev |-> sub.ev \cup {"successor"}]
             ELSE LET merged == BT_merge_children(node, idx)
                      sub == BT_remove_internal(T, ORDER, At(merged.children, idx), key)
                  IN  [node |-> [merged EXCEPT !.children[idx + 1] = sub.node],
                       found |-> TRUE, erased |-> sub.erased,
                       ev |-> sub.ev \cup {"merge_found"}]
        ELSE IF ~node.is_leaf
        THEN LET sub == BT_remove_internal(T, ORDER, At(node.children, idx), key)
                 n1 == [node EXCEPT !.children[idx + 1] = sub.node]
                 fix == IF sub.found /\ Len(sub.node.keys) < ORDER - 1
                        THEN BT_fix_child(ORDER, n1, idx)
                        ELSE [node |-> n1, ev |-> {}]
             IN  [node |-> fix.node, found |-> sub.found, erased |-> sub.erased,
                  ev |-> sub.ev \cup fix.ev]
        ELSE [node |-> node, found |-> FALSE, erased |-> 0, ev |-> {}]

\* BTree::remove(key): remove_internal on the root, whose lines 196-198
\* replace an emptied internal root by its only child.
BT_remove(T, ORDER, root, key) ==
    LET r == BT_remove_internal(T, ORDER, root, key)
        collapse == Len(r.node.keys) = 0 /\ ~r.node.is_leaf
    IN  [node |-> IF collapse THEN At(r.node.children, 0) ELSE r.node,
         found |-> r.found, erased |-> r.erased,
         ev |-> r.ev \cup (IF collapse THEN {"collapse"} ELSE {})]

\* The BTree under test holds plain keys.
BT_T == "KeyType"

\* BTree(): the state after construction, for one instantiation of ORDER.
BT_Init ==
    /\ bt_order \in 2 .. MaxOrder
    /\ bt_root = NewNode(TRUE)
    /\ bt_size = 0
    /\ bt_keys = {}
    /\ bt_last = [op |-> "none", key |-> 0, ret |-> FALSE, ev |-> {}, reads |-> <<>>]
    /\ bt_aborted = FALSE
    /\ bt_stored = <<>>

\* BTree::search(key)
BT_search(key) == BT_search_internal(BT_T, bt_root, key)

\* BTree::range_search(start, end)
BT_range_search(start, end) == BT_range_search_internal(BT_T, bt_root, start, end)

\* A call of insert(key) with a key that is not in the tree, run to its end.
BT_Insert(key) ==
    /\ ~bt_aborted
    /\ key \notin bt_keys
    /\ UNCHANGED not_bt_vars
    /\ LET r == BT_insert(BT_T, bt_order, bt_root, key)
       IN  /\ bt_root' = r.node
           /\ bt_last' = [op |-> "insert", key |-> key, ret |-> FALSE, ev |-> {},
                          reads |-> r.reads]
    /\ bt_size' = bt_size + 1
    /\ bt_keys' = bt_keys \cup {key}
    /\ bt_stored' = InsertAt(bt_stored, UpperBound(bt_stored, 0, Len(bt_stored), key), key)
    /\ UNCHANGED <<bt_order, bt_aborted>>

\* A call of insert(key) with a key that is in the tree already, run to its
\* end: the tree takes a further copy.
BT_InsertCopy(key) ==
    /\ ~bt_aborted
    /\ key \in bt_keys
    /\ Len(bt_stored) < BT_MaxStored
    /\ UNCHANGED not_bt_vars
    /\ LET r == BT_insert(BT_T, bt_order, bt_root, key)
       IN  /\ bt_root' = r.node
           /\ bt_last' = [op |-> "insert", key |-> key, ret |-> FALSE, ev |-> {},
                          reads |-> r.reads]
    /\ bt_size' = bt_size + 1
    /\ bt_stored' = InsertAt(bt_stored, UpperBound(bt_stored, 0, Len(bt_stored), key), key)
    /\ UNCHANGED <<bt_order, bt_aborted, bt_keys>>

\* The same call where the library checks operator[] (split_child, line 44):
\* the read one past the end of child->keys terminates the process.
BT_InsertAbort(key) ==
    /\ ~bt_aborted
    /\ key \notin bt_keys
    /\ BT_insert(BT_T, bt_order, bt_root, key).reads # <<>>
    /\ UNCHANGED not_bt_vars
    /\ bt_aborted' = TRUE
    /\ UNCHANGED <<bt_order, bt_root, bt_size, bt_keys, bt_last, bt_stored>>

\* A call of remove(key), for a key in the tree or not.
BT_Remove(key) ==
    /\ ~bt_aborted
    /\ UNCHANGED not_bt_vars
    /\ LET r == BT_remove(BT_T, bt_order, bt_root, key)
       IN  /\ bt_root' = r.node
           /\ bt_size' = bt_size - r.erased
           /\ bt_last' = [op |-> "remove", key |-> key, ret |-> r.found, ev |-> r.ev,
                          reads |-> <<>>]
    /\ bt_stored' = IF key \in bt_keys
                     THEN RemoveAt(bt_stored, LowerBound(bt_stored, 0, Len(bt_stored), key))
                     ELSE bt_stored
    /\ bt_keys' = {bt_stored'[i] : i \in 1 .. Len(bt_stored')}
    /\ UNCHANGED <<bt_order, bt_aborted>>

(***************************************************************************)
(* BPlusTree<T, ORDER> (bplus_tree.h)                                      *)
(*                                                                         *)
(* Nodes live in a heap: nodes[a] is the node at address a, children and   *)
(* next_leaf hold addresses, and make_shared returns the next free one.    *)
(***************************************************************************)
\* Node(leaf)
BP_NewNode(leaf) == [is_leaf |-> leaf, keys |-> <<>>, children |-> <<>>, next_leaf |-> 0]

\* A split that does not hand the old successor of a leaf to the new leaf.
BP_split_child_unlinked(ORDER, nodes, parent, index) ==
    LET child == At(nodes[parent].children, index)
        c == nodes[child]
        new_child == Len(nodes) + 1
        mid == ORDER \div 2
        n == [is_leaf |-> c.is_leaf,
              keys |-> From(c.keys, mid),
              children |-> IF c.is_leaf THEN <<>> ELSE From(c.children, mid),
              next_leaf |-> 0]
        c2 == [is_leaf |-> c.is_leaf,
               keys |-> IF c.is_leaf THEN SubSeq(c.keys, 1, mid)
                        ELSE SubSeq(c.keys, 1, mid - 1),
               children |-> IF c.is_leaf THEN c.children
                            ELSE SubSeq(c.children, 1, mid + 1),
               next_leaf |-> IF c.is_leaf THEN new_child ELSE c.next_leaf]
        up == IF c.is_leaf THEN At(n.keys, 0) ELSE At(c.keys, mid - 1)
        p == nodes[parent]
        p2 == [p EXCEPT !.keys = InsertAt(p.keys, index, up),
                        !.children = InsertAt(p.children, index + 1, new_child)]
    IN  [Append(nodes, n) EXCEPT ![child] = c2, ![parent] = p2]

\* BPlusTree::split_child(parent, index, child) with child the node at
\* nodes[parent].children[index]: the heap after the call.
BP_split_child(ORDER, nodes, parent, index) ==
    LET child == At(nodes[parent].children, index)
        c == nodes[child]
        new_child == Len(nodes) + 1
        mid == ORDER \div 2
        n == [is_leaf |-> c.is_leaf,
              keys |-> From(c.keys, mid),
              children |-> IF c.is_leaf THEN <<>> ELSE From(c.children, mid),
              next_leaf |-> IF c.is_leaf THEN c.next_leaf ELSE 0]
        c2 == [is_leaf |-> c.is_leaf,
               keys |-> IF c.is_leaf THEN SubSeq(c.keys, 1, mid)
                        ELSE SubSeq(c.keys, 1, mid - 1),
               children |-> IF c.is_leaf THEN c.children
                            ELSE SubSeq(c.children, 1, mid + 1),
               next_leaf |-> IF c.is_leaf THEN new_child ELSE c.next_leaf]
        up == IF c.is_leaf THEN At(n.keys, 0) ELSE At(c.keys, mid - 1)
        p == nodes[parent]
        p2 == [p EXCEPT !.keys = InsertAt(p.keys, index, up),
                        !.children = InsertAt(p.children, index + 1, new_child)]
    IN  [Append(nodes, n) EXCEPT ![child] = c2, ![parent] = p2]

\* BPlusTree::insert_non_full(node, key): the heap after the call.
RECURSIVE BP_insert_non_full(_, _, _, _)
BP_insert_non_full(ORDER, nodes, node, key) ==
    LET nd == nodes[node]
        i0 == BT_scan_back("KeyType", nd.keys, Len(nd.keys) - 1, key)
    IN  IF nd.is_leaf
        THEN [nodes EXCEPT ![node].keys = InsertAt(nd.keys, i0, key)]
        ELSE LET full == Len(nodes[At(nd.children, i0)].keys) = 2 * ORDER - 1
                 nodes1 == IF full THEN BP_split_child(ORDER, nodes, node, i0) ELSE nodes
                 i == IF full /\ key > At(nodes1[node].keys, i0) THEN i0 + 1 ELSE i0
             IN  BP_insert_non_full(ORDER, nodes1, At(nodes1[node].children, i), key)

\* BPlusTree::insert(key): the heap and the root after the call.
BP_insert(ORDER, nodes, root, key) ==
    IF Len(nodes[root].keys) = 2 * ORDER - 1
    THEN LET new_root == Len(nodes) + 1
             nodes1 == Append(nodes, [BP_NewNode(FALSE) EXCEPT !.children = <<root>>])
             nodes2 == BP_split_child(ORDER, nodes1, new_root, 0)
         IN  [nodes |-> BP_insert_non_full(ORDER, nodes2, new_root, key), root |-> new_root]
    ELSE [nodes |-> BP_insert_non_full(ORDER, nodes, root, key), root |-> root]

\* A scan that sends a key equal to a separator to the left of it.
RECURSIVE BP_scan_strict(_, _, _)
BP_scan_strict(keys, i, key) ==
    IF i < Len(keys) /\ key > At(keys, i) THEN BP_scan_strict(keys, i + 1, key) ELSE i

\* find_leaf, lines 99-101: the first slot whose key is above key.
RECURSIVE BP_scan(_, _, _)
BP_scan(keys, i, key) ==
    IF i < Len(keys) /\ key >= At(keys, i) THEN BP_scan(keys, i + 1, key) ELSE i

\* BPlusTree::find_leaf(key), from node down.
RECURSIVE BP_find_leaf(_, _, _)
BP_find_leaf(nodes, node, key) ==
    IF nodes[node].is_leaf THEN node
    ELSE BP_find_leaf(nodes, At(nodes[node].children, BP_scan(nodes[node].keys, 0, key)), key)

\* BPlusTree::search_in_leaf(leaf, key): std::binary_search.
BP_search_in_leaf(nodes, leaf, key) ==
    LET keys == nodes[leaf].keys
        i == LowerBound(keys, 0, Len(keys), key)
    IN  i # Len(keys) /\ ~(key < At(keys, i))

\* BPlusTree::search(key) on a heap and root.
BP_search_in(nodes, root, key) == BP_search_in_leaf(nodes, BP_find_leaf(nodes, root, key), key)

\* range_search_internal, lines 119-123: the keys of the first leaf inside
\* [start, end].
BP_range_first(keys, start, end) == KeysInRange(keys, start, end)

\* A reading of a leaf that stops after its first key.
BP_range_head(keys, end) ==
    IF keys # <<>> /\ Head(keys) <= end THEN <<Head(keys)>> ELSE <<>>

\* range_search_internal, lines 128-134: the keys of a later leaf up to the
\* first one above end.
RECURSIVE BP_range_leaf(_, _)
BP_range_leaf(keys, end) ==
    IF keys # <<>> /\ Head(keys) <= end
    THEN <<Head(keys)>> \o BP_range_leaf(Tail(keys), end)
    ELSE <<>>

\* range_search_internal, lines 125-135: the walk along the leaf chain.
RECURSIVE BP_range_chain(_, _, _)
BP_range_chain(nodes, leaf, end) ==
    LET next_leaf == nodes[leaf].next_leaf
    IN  IF next_leaf # 0 /\ At(nodes[next_leaf].keys, 0) <= end
        THEN BP_range_leaf(nodes[next_leaf].keys, end) \o BP_range_chain(nodes, next_leaf, end)
        ELSE <<>>

\* BPlusTree::range_search_internal(start, end, result): what it appends.
BP_range_search_internal(nodes, root, start, end) ==
    LET leaf == BP_find_leaf(nodes, root, start)
    IN  BP_range_first(nodes[leaf].keys, start, end) \o BP_range_chain(nodes, leaf, end)

\* BPlusTree(): the state after construction, for one instantiation of ORDER.
BP_Init ==
    /\ bp_order \in 2 .. MaxOrder
    /\ bp_nodes = <<BP_NewNode(TRUE)>>
    /\ bp_root = 1
    /\ bp_size = 0
    /\ bp_keys = {}
    /\ bp_last = [op |-> "none", key |-> 0]
    /\ bp_stored = <<>>

\* BPlusTree::search(key)
BP_search(key) == BP_search_in(bp_nodes, bp_root, key)

\* BPlusTree::range_search(start, end)
BP_range_search(start, end) == BP_range_search_internal(bp_nodes, bp_root, start, end)

\* A call of insert(key) with a key that is not in the tree.
BP_Insert(key) ==
    /\ key \notin bp_keys
    /\ LET r == BP_insert(bp_order, bp_nodes, bp_root, key)
       IN  /\ bp_nodes' = r.nodes
           /\ bp_root' = r.root
    /\ bp_size' = bp_size + 1
    /\ bp_keys' = bp_keys \cup {key}
    /\ bp_last' = [op |-> "insert", key |-> key]
    /\ bp_stored' = InsertAt(bp_stored, UpperBound(bp_stored, 0, Len(bp_stored), key), key)
    /\ UNCHANGED bp_order
    /\ UNCHANGED not_bp_vars

\* A call of insert(key) with a key that is in the tree already: the tree
\* takes a further copy.
BP_InsertCopy(key) ==
    /\ key \in bp_keys
    /\ Len(bp_stored) < BP_MaxStored
    /\ LET r == BP_insert(bp_order, bp_nodes, bp_root, key)
       IN  /\ bp_nodes' = r.nodes
           /\ bp_root' = r.root
    /\ bp_size' = bp_size + 1
    /\ bp_last' = [op |-> "insert", key |-> key]
    /\ bp_stored' = InsertAt(bp_stored, UpperBound(bp_stored, 0, Len(bp_stored), key), key)
    /\ UNCHANGED <<bp_order, bp_keys>>
    /\ UNCHANGED not_bp_vars

(***************************************************************************)
(* RMI (rmi.h)                                                             *)
(*                                                                         *)
(* A double is a record [num, den] with den > 0; an int is an integer.     *)
(***************************************************************************)
\* static_cast<int>(double): truncation toward zero.
TruncToInt(q) ==
    IF q.num >= 0 THEN q.num \div q.den ELSE -((-q.num) \div q.den)

\* std::round(double): to nearest, halves away from zero.
RoundToInt(q) ==
    IF q.num >= 0 THEN (2 * q.num + q.den) \div (2 * q.den)
    ELSE -((2 * (-q.num) + q.den) \div (2 * q.den))

\* LinearModel::predict(x)
LM_predict(model, x) ==
    [num |-> model.slope.num * x * model.intercept.den + model.intercept.num * model.slope.den,
     den |-> model.slope.den * model.intercept.den]

\* LinearModel(): slope 0.0 and intercept 0.0.
LM_Default == [slope |-> [num |-> 0, den |-> 1], intercept |-> [num |-> 0, den |-> 1]]

\* RMI(): the state after construction.
RMI_Init ==
    /\ rmi_branch_factor = 0
    /\ rmi_stage1_model = LM_Default
    /\ rmi_stage2_models = <<>>
    /\ rmi_min_errors = <<>>
    /\ rmi_max_errors = <<>>
    /\ rmi_data = <<>>
    /\ rmi_last = [op |-> "none", ret |-> TRUE]

\* RMI::load_data(new_data)
RMI_load_data(new_data) ==
    /\ rmi_data' = new_data
    /\ rmi_last' = [op |-> "load_data", ret |-> TRUE]
    /\ UNCHANGED <<rmi_branch_factor, rmi_stage1_model, rmi_stage2_models,
                   rmi_min_errors, rmi_max_errors>>

\* parseRMIModel, lines 100-103: the entries pushed onto params.stage2.  Each
\* line "}" or "}," read after the "stage2" line pushes currentModel: the
\* lines that close the entries, and also the line "}" that closes the
\* document, which pushes the last entry once more.
RMI_parsed_stage2(file) ==
    IF file.closing_brace_line
    THEN Append(file.params.stage2, file.params.stage2[Len(file.params.stage2)])
    ELSE file.params.stage2

\* parseRMIModel(filename), lines 64-124: it throws when the file cannot be
\* opened (lines 66-69) or std::stod rejects the text of a numeric field
\* (line 46), and otherwise returns the fields it has read.
RMI_parseRMIModel(file) ==
    [threw |-> ~file.readable \/ file.unparsable,
     params |-> [file.params EXCEPT !.stage2 = RMI_parsed_stage2(file)]]

\* A load_model that has assigned branch_factor before the parser throws.
RMI_load_model_catch_late(file) ==
    /\ rmi_last' = [op |-> "load_model", ret |-> FALSE]
    /\ rmi_branch_factor' = file.params.branch_factor
    /\ UNCHANGED <<rmi_stage1_model, rmi_stage2_models,
                   rmi_min_errors, rmi_max_errors, rmi_data>>

\* load_model, lines 163-166: the catch block.
RMI_load_model_catch(file) ==
    /\ rmi_last' = [op |-> "load_model", ret |-> FALSE]
    /\ UNCHANGED <<rmi_branch_factor, rmi_stage1_model, rmi_stage2_models,
                   rmi_min_errors, rmi_max_errors, rmi_data>>

\* load_model, lines 149-161: the members are assigned from the parsed fields.
RMI_load_model(params) ==
    /\ rmi_branch_factor' = params.branch_factor
    /\ rmi_stage1_model' = [slope |-> params.stage1.slope, intercept |-> params.stage1.intercept]
    /\ rmi_stage2_models' = [i \in 1 .. Len(params.stage2) |->
                                [slope |-> params.stage2[i].slope,
                                 intercept |-> params.stage2[i].intercept]]
    /\ rmi_min_errors' = [i \in 1 .. Len(params.stage2) |-> params.stage2[i].min_error]
    /\ rmi_max_errors' = [i \in 1 .. Len(params.stage2) |-> params.stage2[i].max_error]
    /\ rmi_last' = [op |-> "load_model", ret |-> TRUE]
    /\ UNCHANGED rmi_data

\* RMI::load_model(filename), lines 144-167
RMI_load_model_file(file) ==
    LET parsed == RMI_parseRMIModel(file)
    IN  IF parsed.threw THEN RMI_load_model_catch(file) ELSE RMI_load_model(parsed.params)

\* predict_position, lines 177-181: the second-stage model a key is routed to.
RMI_model_idx(key) ==
    Max2(0, Min2(rmi_branch_factor - 1, TruncToInt(LM_predict(rmi_stage1_model, key))))

\* predict_position, lines 184-185: the rounded second-stage prediction.
RMI_pred_pos(key) ==
    RoundToInt(LM_predict(At(rmi_stage2_models, RMI_model_idx(key)), key))

\* RMI::predict_position(key)
RMI_predict_position(key) ==
    IF rmi_branch_factor = 0 THEN [lower_bound |-> -1, upper_bound |-> -1]
    ELSE LET model_idx == RMI_model_idx(key)
             pred_pos == RMI_pred_pos(key)
         IN  [lower_bound |-> Max2(0, pred_pos + At(rmi_min_errors, model_idx)),
              upper_bound |-> pred_pos + At(rmi_max_errors, model_idx)]

\* lookup, lines 209-213, and range_query, lines 240-247: the positions
\* lower_bound and upper_bound between which key is searched for.
RMI_window(key) ==
    LET b == RMI_predict_position(key)
    IN  [lower_bound |-> Max2(0, b.lower_bound),
         upper_bound |-> Min2(Len(rmi_data) - 1, b.upper_bound)]

\* lookup, lines 202-206 and 221-225: the answer read at iterator position it.
\* A position beyond data.end() is dereferenced all the same: the read is out
\* of bounds and may or may not compare equal to key.
RMI_answer(it, key) ==
    IF it = Len(rmi_data) THEN {-1}
    ELSE IF it > Len(rmi_data) THEN {-1, it}
    ELSE IF At(rmi_data, it) = key THEN {it} ELSE {-1}

\* RMI::lookup(key): the set of results the call can return.  When the window
\* is inverted (first past last) std::lower_bound runs no iteration and
\* returns first.
RMI_lookup(key) ==
    IF rmi_data = <<>> THEN {-1}
    ELSE IF rmi_branch_factor = 0
    THEN RMI_answer(LowerBound(rmi_data, 0, Len(rmi_data), key), key)
    ELSE LET b == RMI_predict_position(key)
             lower_bound == Max2(0, b.lower_bound)
             upper_bound == Min2(Len(rmi_data) - 1, b.upper_bound)
             it == IF lower_bound <= upper_bound + 1
                   THEN LowerBound(rmi_data, lower_bound, upper_bound + 1, key)
                   ELSE lower_bound
         IN  RMI_answer(it, key)

\* range_query, lines 240-254: the position of lower_it.
RMI_lower_it(lower) ==
    IF rmi_branch_factor = 0 THEN LowerBound(rmi_data, 0, Len(rmi_data), lower)
    ELSE LET b == RMI_predict_position(lower)
             lb_pos == Max2(0, b.lower_bound)
             ub_pos == Min2(Len(rmi_data) - 1, b.upper_bound)
             it == IF lb_pos <= ub_pos + 1
                   THEN LowerBound(rmi_data, lb_pos, ub_pos + 1, lower)
                   ELSE lb_pos
         IN  IF it = ub_pos + 1 THEN LowerBound(rmi_data, 0, Len(rmi_data), lower) ELSE it

\* std::upper_bound(lower_it, data.end(), upper), lines 266, 275, 280; on an
\* inverted range the search runs no iteration and returns its first argument.
RMI_upper_from(lower_it, upper) ==
    IF lower_it <= Len(rmi_data) THEN UpperBound(rmi_data, lower_it, Len(rmi_data), upper)
    ELSE lower_it

\* range_query, lines 264-283: the position of upper_it.
RMI_upper_it(lower_it, upper) ==
    IF rmi_branch_factor = 0 THEN RMI_upper_from(lower_it, upper)
    ELSE LET b == RMI_predict_position(upper)
             lb_pos == Max2(lower_it, b.lower_bound)
             ub_pos == Min2(Len(rmi_data) - 1, b.upper_bound)
         IN  IF lb_pos > ub_pos THEN RMI_upper_from(lower_it, upper)
             ELSE LET it == UpperBound(rmi_data, lb_pos, ub_pos + 1, upper)
                  IN  IF it = lb_pos THEN RMI_upper_from(lower_it, upper) ELSE it

\* range_query, lines 257-288, from lower_it on.
RMI_range_from(lower_it, upper_it) ==
    IF lower_it >= upper_it THEN <<>> ELSE SubSeq(rmi_data, lower_it + 1, upper_it)

\* RMI::range_query(lower, upper)
RMI_range_query(lower, upper) ==
    IF rmi_data = <<>> \/ lower > upper THEN <<>>
    ELSE IF RMI_lower_it(lower) = Len(rmi_data) THEN <<>>
    ELSE RMI_range_from(RMI_lower_it(lower), RMI_upper_it(RMI_lower_it(lower), upper))

\* The doubles and the error pairs that appear in the model files.
RMI_Zero == [num |-> 0, den |-> 1]

RMI_Half == [num |-> 1, den |-> 2]

RMI_One == [num |-> 1, den |-> 1]

\* Second-stage entries of a model file: an exact unit-slope model and a
\* half-slope model with an error band of one position either way.
RMI_Stage2Params ==
    {[slope |-> RMI_One, intercept |-> RMI_Zero, min_error |-> 0, max_error |-> 0],
     [slope |-> RMI_Half, intercept |-> RMI_Zero, min_error |-> -1, max_error |-> 1]}

\* The fields written in the well-formed model files: branch_factor
\* second-stage entries, and a first stage that routes every key to entry 0
\* or key k to entry k / 2.
RMI_Files ==
    {[branch_factor |-> Len(st2), stage1 |-> [slope |-> s1, intercept |-> RMI_Zero],
      stage2 |-> st2] :
        s1 \in {RMI_Zero, RMI_Half},
        st2 \in UNION {[1 .. b -> RMI_Stage2Params] : b \in 1 .. MaxBranch}}

\* A call of load_data with a sorted vector of distinct keys.
RMI_LoadData ==
    \E new_data \in SortedInputs : RMI_load_data(new_data) /\ UNCHANGED not_rmi_vars

\* A call of load_data with any vector, unsorted or with repeated keys.
RMI_LoadDataArbitrary ==
    \E new_data \in ArbitraryInputs : RMI_load_data(new_data) /\ UNCHANGED not_rmi_vars

\* The model files: one that cannot be opened, and, with the fields of each
\* well-formed file, one whose numeric fields all parse and one in which the
\* text of a field is not a number; each with one field to a line, and with
\* the brace that closes the document on a line of its own, as a JSON writer
\* leaves it, or on the line of the bracket that closes the stage2 array.
RMI_ModelFiles ==
    {[readable |-> r, unparsable |-> u, closing_brace_line |-> c, params |-> p] :
        r \in BOOLEAN, u \in BOOLEAN, c \in BOOLEAN, p \in RMI_Files}

\* A call of load_model.
RMI_LoadModel ==
    \E file \in RMI_ModelFiles : RMI_load_model_file(file) /\ UNCHANGED not_rmi_vars

(***************************************************************************)
(* FitingTree (fiting_tree.h)                                              *)
(*                                                                         *)
(* A double is a record [num, den] in lowest terms with den > 0, the value *)
(* the arithmetic has before rounding.  A line whose slope and intercept   *)
(* are binary fractions is computed without rounding at these magnitudes;  *)
(* for any other line each product and sum is rounded, in a way that       *)
(* depends on the build (contraction to fused multiply-add, extended       *)
(* precision), so a comparison that is an equality before rounding, a      *)
(* ceiling of a whole number and a rounding of a half can fall either way. *)
(* The segment index is a BTree<KeyIndex, 5> whose elements are records    *)
(* [key, index].                                                           *)
(***************************************************************************)
RECURSIVE GCD(_, _)
GCD(a, b) == IF b = 0 THEN a ELSE GCD(b, a % b)

\* The double num / den, for den # 0.
Rat(num, den) ==
    LET n == IF den < 0 THEN -num ELSE num
        d == Abs(den)
        g == GCD(Abs(n), d)
    IN  [num |-> n \div g, den |-> d \div g]

\* slope * static_cast<double>(key) + intercept
RatLine(slope, key, intercept) ==
    Rat(slope.num * key * intercept.den + intercept.num * slope.den,
        slope.den * intercept.den)

\* std::abs(predicted_pos - static_cast<double>(i))
RatAbsDiff(q, i) == Rat(Abs(q.num - i * q.den), q.den)

\* a < b on doubles
RatLess(a, b) == a.num * b.den < b.num * a.den

\* std::ceil(double) converted to int
CeilToInt(q) ==
    IF q.num >= 0 THEN (q.num + q.den - 1) \div q.den ELSE -((-q.num) \div q.den)

\* std::floor(double) converted to int
FloorToInt(q) ==
    IF q.num >= 0 THEN q.num \div q.den ELSE -((-q.num + q.den - 1) \div q.den)

\* n is a power of two.
RECURSIVE IsPow2(_)
IsPow2(n) == n = 1 \/ (n > 1 /\ n % 2 = 0 /\ IsPow2(n \div 2))

\* The line slope * x + intercept is evaluated with rounding.
FT_rounded(slope, intercept) == ~IsPow2(slope.den) \/ ~IsPow2(intercept.den)

\* static_cast<int>(std::round(slope * key + intercept)), lines 208-209,
\* 252-254, 259-261, 291-292: the values it can have.
FT_pred_pos(slope, key, intercept) ==
    LET q == RatLine(slope, key, intercept)
    IN  IF q.den = 2 /\ FT_rounded(slope, intercept)
        THEN {FloorToInt(q), FloorToInt(q) + 1}
        ELSE {RoundToInt(q)}

\* buildSegments, lines 64-79: the regression sums over data[start_idx..end_idx].
RECURSIVE FT_sums(_, _, _)
FT_sums(data, start_idx, end_idx) ==
    LET x == At(data, end_idx)
    IN  IF end_idx = start_idx
        THEN [count |-> 1, sum_x |-> x, sum_y |-> end_idx, sum_xx |-> x * x,
              sum_xy |-> x * end_idx]
        ELSE LET p == FT_sums(data, start_idx, end_idx - 1)
             IN  [count |-> p.count + 1, sum_x |-> p.sum_x + x, sum_y |-> p.sum_y + end_idx,
                  sum_xx |-> p.sum_xx + x * x, sum_xy |-> p.sum_xy + x * end_idx]

\* buildSegments, lines 89-94: the largest error of the line over data[i..end_idx].
RECURSIVE FT_max_current_error(_, _, _, _, _)
FT_max_current_error(data, slope, intercept, i, end_idx) ==
    IF i > end_idx THEN Rat(0, 1)
    ELSE LET error == RatAbsDiff(RatLine(slope, At(data, i), intercept), i)
             rest == FT_max_current_error(data, slope, intercept, i + 1, end_idx)
         IN  IF RatLess(rest, error) THEN error ELSE rest

\* buildSegments, lines 82-86: the least-squares line through the points
\* summed in m, or the line as it was when the denominator vanishes.
FT_refit(m, slope, intercept) ==
    LET denominator == m.count * m.sum_xx - m.sum_x * m.sum_x
    IN  IF denominator # 0
        THEN [slope |-> Rat(m.count * m.sum_xy - m.sum_x * m.sum_y, denominator),
              intercept |-> Rat(m.sum_y * denominator - (m.count * m.sum_xy - m.sum_x * m.sum_y) * m.sum_x,
                                denominator * m.count)]
        ELSE [slope |-> slope, intercept |-> intercept]

\* buildSegments, lines 72-103: the inner loop from end_idx on, as the set of
\* the values it can leave.  The slope and intercept are refitted before the
\* error test, so the values left by the iteration that breaks belong to the
\* fit that was rejected.  (rounded: max_error was computed with rounding.)
RECURSIVE FT_extend(_, _, _, _, _, _, _, _)
RECURSIVE FT_extend_with(_, _, _, _, _, _, _, _)
FT_extend(data, epsilon, start_idx, end_idx, slope, intercept, max_error, rounded) ==
    IF end_idx >= Len(data)
    THEN {[end_idx |-> end_idx, slope |-> slope, intercept |-> intercept,
           max_error |-> max_error, rounded |-> rounded]}
    ELSE FT_extend_with(data, epsilon, start_idx, end_idx, max_error, rounded,
                        FT_refit(FT_sums(data, start_idx, end_idx), slope, intercept),
                        <<>>)

\* buildSegments, lines 88-103, for the refitted line: the error test, then
\* the break or the next iteration.  (cur carries the error once computed.)
FT_extend_with(data, epsilon, start_idx, end_idx, max_error, rounded, fit, cur) ==
    IF cur = <<>>
    THEN FT_extend_with(data, epsilon, start_idx, end_idx, max_error, rounded, fit,
             <<FT_max_current_error(data, fit.slope, fit.intercept, start_idx, end_idx)>>)
    ELSE (IF RatLess(Rat(epsilon, 1), cur[1])
             \/ (cur[1] = Rat(epsilon, 1) /\ FT_rounded(fit.slope, fit.intercept))
          THEN {[end_idx |-> end_idx, slope |-> fit.slope, intercept |-> fit.intercept,
                 max_error |-> max_error, rounded |-> rounded]}
          ELSE {})
         \cup
         (IF RatLess(Rat(epsilon, 1), cur[1]) THEN {}
          ELSE FT_extend(data, epsilon, start_idx, end_idx + 1, fit.slope, fit.intercept,
                         cur[1], FT_rounded(fit.slope, fit.intercept)))

\* buildSegments, lines 105-126: the segments that can be made of the loop's
\* result e.
FT_make_segment(data, epsilon, start_idx, e) ==
    LET reset == e.end_idx = start_idx + 1 /\ RatLess(Rat(epsilon, 1), e.max_error)
    IN  {[start_key |-> At(data, start_idx),
          slope |-> IF reset THEN Rat(0, 1) ELSE e.slope,
          intercept |-> IF reset THEN Rat(start_idx, 1) ELSE e.intercept,
          max_error |-> IF reset THEN 0 ELSE c,
          start_position |-> start_idx,
          end_position |-> e.end_idx - 1] :
         c \in IF e.rounded /\ e.max_error.den = 1 /\ e.max_error.num < epsilon
               THEN {e.max_error.num, e.max_error.num + 1}
               ELSE {CeilToInt(e.max_error)}}

\* buildSegments, lines 54-129: the segment vectors that can result from start_idx
\* on, after segs.
RECURSIVE FT_segments_from(_, _, _, _)
RECURSIVE FT_segments_next(_, _, _, _, _)
FT_segments_from(data, epsilon, start_idx, segs) ==
    IF start_idx >= Len(data) THEN {segs}
    ELSE UNION {FT_segments_next(data, epsilon, start_idx, segs, e) :
                   e \in FT_extend(data, epsilon, start_idx, start_idx + 1,
                                   Rat(0, 1), Rat(start_idx, 1), Rat(0, 1), FALSE)}

FT_segments_next(data, epsilon, start_idx, segs, e) ==
    UNION {FT_segments_from(data, epsilon, e.end_idx, Append(segs, segment)) :
              segment \in FT_make_segment(data, epsilon, start_idx, e)}

\* ORDER of the segment index.
FT_INDEX_ORDER == 5

\* buildSegments, lines 131-133: insert one entry per segment, from segment i
\* on, into the segment index (it is not cleared first).  The result of
\* buildSegments: the data, the segments, the index, and the reads past the
\* end that the splits of the index made.
RECURSIVE FT_index_segments(_, _, _, _, _)
FT_index_segments(data, segs, i, index, reads) ==
    IF i >= Len(segs)
    THEN [data |-> data, segments |-> segs, index |-> index, reads |-> reads]
    ELSE LET r == BT_insert("KeyIndex", FT_INDEX_ORDER, index.root,
                            [key |-> At(segs, i).start_key, index |-> i])
         IN  FT_index_segments(data, segs, i + 1,
                               [root |-> r.node, size_ |-> index.size_ + 1],
                               reads \o r.reads)

\* findSegmentIndex, lines 144-151: the entry with the largest key <= key, the
\* later one on a tie.
RECURSIVE FT_best(_, _, _, _)
FT_best(results, i, key, best) ==
    IF i >= Len(results) THEN best
    ELSE LET ki == At(results, i)
         IN  FT_best(results, i + 1, key,
                     IF ki.key <= key /\ ki.key >= best.key THEN ki ELSE best)

\* FitingTree::findSegmentIndex(key) over a segment index.
FT_findSegmentIndex(index_root, key) ==
    LET results == BT_range_search_internal("KeyIndex", index_root,
                                            [key |-> 0, index |-> -1],
                                            [key |-> key, index |-> -1])
    IN  IF results = <<>> THEN 0
        ELSE FT_best(results, 0, key, At(results, 0)).index

\* DeltaBuffer::max_size of a default-constructed buffer.
FT_DELTA_SIZE == 64

\* FitingTree(epsilon): the state after construction.
FT_Init ==
    /\ ft_epsilon \in 0 .. MaxEpsilon
    /\ ft_segments = <<>>
    /\ ft_segment_index = [root |-> NewNode(TRUE), size_ |-> 0]
    /\ ft_data = <<>>
    /\ ft_delta_buffers = <<>>
    /\ ft_last = [op |-> "none", key |-> 0, ret |-> FALSE]
    /\ ft_corrupt = FALSE
    /\ ft_builds = 0
    /\ ft_built_spans = <<>>

\* FitingTree::buildSegments() on data, with the segment index as it is
\* before the call: the results it can have.
FT_buildSegmentsOn(data, index) ==
    IF data = <<>>
    THEN {[data |-> data, segments |-> <<>>, index |-> index, reads |-> <<>>]}
    ELSE {FT_index_segments(data, segs, 0, index, <<>>) :
             segs \in FT_segments_from(data, ft_epsilon, 0, <<>>)}

\* FitingTree::buildSegments() on data in the current state.
FT_buildSegments(data) == FT_buildSegmentsOn(data, ft_segment_index)

\* The outcomes of a call that ran buildSegments with a result in results:
\* the call runs to its end, or, where a split of the segment index read past
\* the end of a key vector and the library checks operator[], the process is
\* terminated.
FT_rebuilt(results) ==
    UNION {{[data |-> b.data, segments |-> b.segments, index |-> b.index, ret |-> TRUE,
             corrupt |-> c, rebuilt |-> TRUE] :
                c \in IF b.reads = <<>> THEN {FALSE} ELSE {FALSE, TRUE}} :
           b \in results}

\* end_position - start_position of each segment.
FT_spans(segs) ==
    [i \in 1 .. Len(segs) |-> segs[i].end_position - segs[i].start_position]

\* The spans as of the last run of buildSegments, after a call with outcome o.
FT_spans_after(o) == IF o.rebuilt THEN FT_spans(o.segments) ELSE ft_built_spans

\* std::sort
RECURSIVE StdSort(_)
StdSort(s) ==
    IF s = <<>> THEN <<>>
    ELSE LET rest == StdSort(Tail(s))
         IN  InsertAt(rest, UpperBound(rest, 0, Len(rest), Head(s)), Head(s))

\* std::vector::resize(n, fill)
Resize(s, n, fill) ==
    IF n <= Len(s) THEN SubSeq(s, 1, n) ELSE s \o [i \in 1 .. (n - Len(s)) |-> fill]

\* lookup, lines 212-217, and insertInPlace, lines 295-300: the positions
\* lower_bound and upper_bound between which key is searched for.
FT_windowIn(data, segment, pred_pos) ==
    [lower_bound |-> Max2(0, Max2(segment.start_position, pred_pos - segment.max_error)),
     upper_bound |-> Min2(Len(data) - 1,
                          Min2(segment.end_position, pred_pos + segment.max_error))]

FT_window(segment, pred_pos) == FT_windowIn(ft_data, segment, pred_pos)

\* The search window of lookup (lines 212-217) and insertInPlace (lines
\* 295-300) in a segment for pred_pos, and the iterator std::lower_bound
\* returns for it (lines 220-224, 302-306); on an inverted window the search
\* runs no iteration and returns its first argument.
FT_search_at_in(data, segment, key, pred_pos) ==
    LET lower_bound == Max2(0, Max2(segment.start_position, pred_pos - segment.max_error))
        upper_bound == Min2(Len(data) - 1,
                            Min2(segment.end_position, pred_pos + segment.max_error))
    IN  IF lower_bound <= upper_bound + 1
        THEN LowerBound(data, lower_bound, upper_bound + 1, key)
        ELSE lower_bound

FT_search_at(segment, key, pred_pos) == FT_search_at_in(ft_data, segment, key, pred_pos)

\* The iterators the search of lookup and insertInPlace can return, over data.
FT_search_in(data, segment, key) ==
    {FT_search_at_in(data, segment, key, pred_pos) :
        pred_pos \in FT_pred_pos(segment.slope, key, segment.intercept)}

\* The same in the current state.
FT_search(segment, key) == FT_search_in(ft_data, segment, key)

\* lookup, lines 226-230, with the iterator at it.  An iterator beyond
\* data.end() is dereferenced all the same (out of bounds).
FT_answer(it, key) ==
    IF it = Len(ft_data) THEN {-1}
    ELSE IF it > Len(ft_data) THEN {-1, it}
    ELSE IF At(ft_data, it) = key THEN {it} ELSE {-1}

\* lookup, lines 205-230, in segment segment_idx.  An index entry that names
\* no segment is followed all the same (out of bounds).
FT_lookup_in(segment_idx, key) ==
    IF segment_idx >= Len(ft_segments) THEN -1 .. Len(ft_data)
    ELSE UNION {FT_answer(it, key) : it \in FT_search(At(ft_segments, segment_idx), key)}

\* FitingTree::lookup(key): the set of results the call can return.
FT_lookup(key) ==
    IF ft_data = <<>> \/ ft_segments = <<>> THEN {-1}
    ELSE FT_lookup_in(FT_findSegmentIndex(ft_segment_index.root, key), key)

\* range_query, lines 263-272: what a segment contributes for the positions
\* start_pos and end_pos.
FT_range_between(start_pos, end_pos, search_start, search_end) ==
    LET start_it == IF start_pos <= end_pos + 1
                    THEN LowerBound(ft_data, start_pos, end_pos + 1, search_start)
                    ELSE start_pos
        end_it == IF start_it <= end_pos + 1
                  THEN UpperBound(ft_data, start_it, end_pos + 1, search_end)
                  ELSE start_it
    IN  SubSeq(ft_data, start_it + 1, end_it)

\* range_query, lines 248-272: what segment seg_idx can contribute.
FT_range_in_segment(seg_idx, start, end) ==
    LET segment == At(ft_segments, seg_idx)
        search_start == Max2(start, segment.start_key)
        search_end == Min2(end, IF seg_idx < Len(ft_segments) - 1
                                THEN USub(At(ft_segments, seg_idx + 1).start_key, 1)
                                ELSE KeyMod - 1)
    IN  {FT_range_between(
             Max2(0, Max2(segment.start_position, start_pred - segment.max_error)),
             Min2(Len(ft_data) - 1, Min2(segment.end_position, end_pred + segment.max_error)),
             search_start, search_end) :
           start_pred \in FT_pred_pos(segment.slope, search_start, segment.intercept),
           end_pred \in FT_pred_pos(segment.slope, search_end, segment.intercept)}

\* range_query, line 247: the loop over the segments from seg_idx on, after
\* result.
RECURSIVE FT_range_from(_, _, _, _, _)
FT_range_from(seg_idx, end_segment_idx, start, end, result) ==
    IF seg_idx <= end_segment_idx /\ seg_idx < Len(ft_segments)
    THEN UNION {FT_range_from(seg_idx + 1, end_segment_idx, start, end, result \o part) :
                   part \in FT_range_in_segment(seg_idx, start, end)}
    ELSE {result}

\* FitingTree::range_query(start, end): the set of results the call can return.
FT_range_query(start, end) ==
    IF ft_data = <<>> \/ ft_segments = <<>> \/ start > end THEN {<<>>}
    ELSE FT_range_from(FT_findSegmentIndex(ft_segment_index.root, start),
                       FT_findSegmentIndex(ft_segment_index.root, end), start, end, <<>>)

\* insertInPlace, lines 318-326: the positions of the segments after an
\* insertion at insert_pos.
FT_shift(segs, insert_pos) ==
    [i \in 1 .. Len(segs) |->
        [segs[i] EXCEPT
            !.start_position = IF @ >= insert_pos THEN @ + 1 ELSE @,
            !.end_position = IF @ >= insert_pos THEN @ + 1 ELSE @]]

\* insertInPlace, lines 329-330: the rebuild test on the shifted segments.
\* segment (line 287) and updated_segment (line 329) are references to the
\* same element of segments.
FT_needs_rebuild(segs, segment_idx) ==
    LET segment == At(segs, segment_idx)
        updated_segment == At(segs, segment_idx)
    IN  updated_segment.end_position - updated_segment.start_position
            > 2 * (segment.end_position - segment.start_position)

\* insertInPlace, lines 309-334, with the iterator at insert_pos, on an
\* instance whose members are those of st.  An iterator beyond data.end() is
\* dereferenced and inserted at all the same: the call returns false or
\* corrupts the heap.
FT_insert_at_on(st, key, segment_idx, insert_pos) ==
    LET same == [data |-> st.data, segments |-> st.segments, index |-> st.index,
                 ret |-> FALSE, corrupt |-> FALSE, rebuilt |-> FALSE]
    IN  IF insert_pos > Len(st.data) THEN {same, [same EXCEPT !.corrupt = TRUE]}
        ELSE IF insert_pos < Len(st.data) /\ At(st.data, insert_pos) = key THEN {same}
        ELSE IF FT_needs_rebuild(FT_shift(st.segments, insert_pos), segment_idx)
        THEN FT_rebuilt(FT_buildSegmentsOn(InsertAt(st.data, insert_pos, key), st.index))
        ELSE {[data |-> InsertAt(st.data, insert_pos, key),
               segments |-> FT_shift(st.segments, insert_pos),
               index |-> st.index, ret |-> TRUE, corrupt |-> FALSE,
               rebuilt |-> FALSE]}

\* insertInPlace, lines 286-307, in segment segment_idx.  An index entry that
\* names no segment is followed all the same (out of bounds).
FT_insert_in_on(st, key, segment_idx) ==
    IF segment_idx >= Len(st.segments)
    THEN {[data |-> st.data, segments |-> st.segments, index |-> st.index,
           ret |-> FALSE, corrupt |-> TRUE, rebuilt |-> FALSE]}
    ELSE UNION {FT_insert_at_on(st, key, segment_idx, insert_pos) :
                   insert_pos \in FT_search_in(st.data, At(st.segments, segment_idx), key)}

\* FitingTree::insertInPlace(key) on an instance whose members are those of
\* st: the outcomes of the call, each the members it leaves and its return
\* value.
FT_insertInPlaceOn(st, key) ==
    IF st.data = <<>> \/ st.segments = <<>>
    THEN FT_rebuilt(FT_buildSegmentsOn(Append(st.data, key), st.index))
    ELSE FT_insert_in_on(st, key, FT_findSegmentIndex(st.index.root, key))

\* The members of the instance in the current state.
FT_members ==
    [data |-> ft_data, segments |-> ft_segments, index |-> ft_segment_index,
     ret |-> TRUE, corrupt |-> ft_corrupt, rebuilt |-> FALSE]

FT_insert_at(key, segment_idx, insert_pos) ==
    FT_insert_at_on(FT_members, key, segment_idx, insert_pos)

FT_insert_in(key, segment_idx) == FT_insert_in_on(FT_members, key, segment_idx)

\* FitingTree::insertInPlace(key) in the current state.
FT_insertInPlace(key) == FT_insertInPlaceOn(FT_members, key)

\* DeltaBuffer::insert(key), lines 167-175: the buffer after the call and the
\* value returned.
DB_insert(buffer, key) ==
    LET it == LowerBound(buffer.keys, 0, Len(buffer.keys), key)
    IN  IF Len(buffer.keys) >= buffer.max_size
        THEN [buffer |-> buffer, inserted |-> FALSE]
        ELSE IF it # Len(buffer.keys) /\ At(buffer.keys, it) = key
        THEN [buffer |-> buffer, inserted |-> FALSE]
        ELSE [buffer |-> [buffer EXCEPT !.keys = InsertAt(buffer.keys, it, key)],
              inserted |-> TRUE]

\* insertDelta, lines 360-362 and 384-386: insertInPlace(k) for the keys of a
\* buffer from the i-th on, on an instance whose members are those of st.  A
\* call that leaves the process dead or the heap corrupted ends the loop.
RECURSIVE FT_merge_keys(_, _, _)
FT_merge_keys(st, keys, i) ==
    IF i >= Len(keys) \/ st.corrupt THEN {st}
    ELSE UNION {FT_merge_keys(o, keys, i + 1) : o \in FT_insertInPlaceOn(st, At(keys, i))}

\* insertDelta, lines 383-388: the loop over the buffers from the b-th on.
RECURSIVE FT_merge_buffers(_, _, _)
FT_merge_buffers(st, buffers, b) ==
    IF b >= Len(buffers) \/ st.corrupt THEN {st}
    ELSE UNION {FT_merge_buffers(o, buffers, b + 1) :
                   o \in FT_merge_keys(st, At(buffers, b).keys, 0)}

\* buildSegments() called on the members st (lines 366, 391).
FT_rebuild_on(st) ==
    IF st.corrupt THEN {st} ELSE FT_rebuilt(FT_buildSegmentsOn(st.data, st.index))

\* The outcome o of a call that leaves the buffers as given; spilled names the
\* buffers the call has merged into the data.
FT_with_buffers(o, buffers, spilled) ==
    [data |-> o.data, segments |-> o.segments, index |-> o.index, ret |-> o.ret,
     corrupt |-> o.corrupt, rebuilt |-> o.rebuilt, buffers |-> buffers, spilled |-> spilled]

\* insertDelta, lines 355-369: the buffer refused the key.
FT_delta_refused(st, buffers, segment_idx, key) ==
    LET cleared == [buffers EXCEPT ![segment_idx + 1].keys = <<>>]
    IN  UNION {UNION {{FT_with_buffers([o EXCEPT !.rebuilt = TRUE], cleared, "target") :
                          o \in IF b.corrupt THEN {[b EXCEPT !.ret = FALSE]}
                                ELSE FT_insertInPlaceOn(b, key)} :
                      b \in FT_rebuild_on(m)} :
               m \in FT_merge_keys(st, At(buffers, segment_idx).keys, 0)}

\* The sum of keys.size() over the buffers (lines 373-376).
RECURSIVE FT_total_buffer_size(_)
FT_total_buffer_size(buffers) ==
    IF buffers = <<>> THEN 0
    ELSE Len(Head(buffers).keys) + FT_total_buffer_size(Tail(buffers))

\* insertDelta, lines 372-394: the buffer took the key.  data.size() * 0.1 is
\* a double; for an integer total, total > data.size() * 0.1 holds exactly
\* when 10 * total > data.size().
FT_delta_buffered(st, buffers) ==
    IF 10 * FT_total_buffer_size(buffers) > Len(st.data)
    THEN LET cleared == [b \in 1 .. Len(buffers) |-> [buffers[b] EXCEPT !.keys = <<>>]]
         IN  UNION {{FT_with_buffers([o EXCEPT !.ret = TRUE], cleared, "all") :
                        o \in FT_rebuild_on(m)} :
                    m \in FT_merge_buffers(st, buffers, 0)}
    ELSE {FT_with_buffers([st EXCEPT !.ret = TRUE, !.rebuilt = FALSE], buffers, "none")}

\* insertDelta, lines 345-394, for a non-empty instance.
FT_delta_in(st, buffers, segment_idx, key) ==
    LET resized == IF segment_idx >= Len(buffers)
                   THEN Resize(buffers, segment_idx + 1,
                               [keys |-> <<>>, max_size |-> FT_DELTA_SIZE])
                   ELSE buffers
        ins == DB_insert(At(resized, segment_idx), key)
    IN  IF ~ins.inserted THEN FT_delta_refused(st, resized, segment_idx, key)
        ELSE FT_delta_buffered(st, [resized EXCEPT ![segment_idx + 1] = ins.buffer])

\* FitingTree::insertDelta(key): the outcomes of the call, each the members
\* it leaves, its return value and the buffers it has spilled.
FT_insertDelta(key) ==
    IF ft_data = <<>> \/ ft_segments = <<>>
    THEN {FT_with_buffers(o, ft_delta_buffers, "none") :
             o \in FT_rebuilt(FT_buildSegments(Append(ft_data, key)))}
    ELSE FT_delta_in(FT_members, ft_delta_buffers,
                     FT_findSegmentIndex(ft_segment_index.root, key), key)

\* FitingTree::build(keys): the outcomes of the call.
FT_build(keys) == FT_rebuilt(FT_buildSegments(StdSort(keys)))

\* Vectors handed to build: distinct keys, ascending or descending.
RECURSIVE Reverse(_)
Reverse(s) == IF s = <<>> THEN <<>> ELSE Append(Reverse(Tail(s)), Head(s))

FT_Inputs ==
    LET asc == {SortedSeq(S) : S \in {T \in SUBSET FT_Keys : Cardinality(T) <= MaxLen}}
    IN  asc \cup {Reverse(k) : k \in asc}

\* A call of build(keys), while fewer than max_builds calls have built the
\* segments.
FT_BuildCall(keys, max_builds) ==
    /\ ~ft_corrupt
    /\ ft_builds < max_builds
    /\ ft_builds' = ft_builds + 1
    /\ \E o \in FT_build(keys) :
            /\ ft_data' = o.data
            /\ ft_segments' = o.segments
            /\ ft_segment_index' = o.index
            /\ ft_corrupt' = o.corrupt
            /\ ft_delta_buffers' = Resize(ft_delta_buffers, Len(o.segments),
                                         [keys |-> <<>>, max_size |-> FT_DELTA_SIZE])
            /\ ft_last' = [op |-> "build", key |-> 0, ret |-> TRUE]
            /\ ft_built_spans' = FT_spans_after(o)
    /\ UNCHANGED ft_epsilon
    /\ UNCHANGED not_ft_vars

\* A call of build(keys) on an instance that has not built its segments.
FT_BuildKeys(keys) == FT_BuildCall(keys, MaxBuilds)

\* A call of build with distinct keys.
FT_Build == \E keys \in FT_Inputs : FT_BuildKeys(keys)

\* Vectors handed to an instance that is built more than once.
FT_RebuildInputs == {SortedSeq(S) : S \in SUBSET (0 .. FT_RebuildMaxKey)}

\* A call of build with distinct keys, the first on the instance or a later one.
FT_Rebuild == \E keys \in FT_RebuildInputs : FT_BuildCall(keys, MaxRebuilds)

\* A call of build with any vector, unsorted or with repeated keys.
FT_BuildArbitrary == \E keys \in ArbitraryInputs : FT_BuildKeys(keys)

\* A call of insertInPlace.
FT_InsertInPlaceCall(keys, max_builds) ==
    /\ ~ft_corrupt
    /\ Len(ft_data) < FT_MaxData
    /\ IF ft_data = <<>> \/ ft_segments = <<>>
       THEN ft_builds < max_builds /\ ft_builds' = ft_builds + 1
       ELSE UNCHANGED ft_builds
    /\ \E key \in keys :
         \E o \in FT_insertInPlace(key) :
            /\ ft_data' = o.data
            /\ ft_segments' = o.segments
            /\ ft_segment_index' = o.index
            /\ ft_corrupt' = o.corrupt
            /\ ft_last' = [op |-> "insertInPlace", key |-> key, ret |-> o.ret]
            /\ ft_built_spans' = FT_spans_after(o)
    /\ UNCHANGED <<ft_epsilon, ft_delta_buffers>>
    /\ UNCHANGED not_ft_vars

FT_InsertInPlace == FT_InsertInPlaceCall(FT_Keys, MaxBuilds)

\* Vectors handed to build on an instance that takes delta insertions:
\* FT_DeltaLen distinct keys, enough for a buffered key to stay within a tenth
\* of the data.
FT_DeltaInputs ==
    {SortedSeq(S) : S \in {T \in SUBSET (0 .. FT_DeltaMaxKey) : Cardinality(T) = FT_DeltaLen}}

\* A call of build on such an instance.
FT_BuildDelta == \E keys \in FT_DeltaInputs : FT_BuildCall(keys, 1)

\* A call of insertDelta(key), while the calls have run buildSegments at most
\* MaxDeltaBuilds times.
FT_InsertDelta ==
    /\ ~ft_corrupt
    /\ ft_builds >= 1
    /\ \E key \in 0 .. (FT_DeltaMaxKey + 1) :
         \E o \in FT_insertDelta(key) :
            /\ ft_builds' = IF o.rebuilt THEN ft_builds + 1 ELSE ft_builds
            /\ ft_builds' <= MaxDeltaBuilds
            /\ ft_data' = o.data
            /\ ft_segments' = o.segments
            /\ ft_segment_index' = o.index
            /\ ft_corrupt' = o.corrupt
            /\ ft_delta_buffers' = o.buffers
            /\ ft_last' = [op |-> "insertDelta", key |-> key, ret |-> o.ret]
            /\ ft_built_spans' = FT_spans_after(o)
    /\ UNCHANGED ft_epsilon
    /\ UNCHANGED not_ft_vars

\* A call of insertInPlace on an instance that is built more than once.
FT_InsertInPlaceRebuild == FT_InsertInPlaceCall(0 .. FT_RebuildMaxKey, MaxRebuilds)

(***************************************************************************)
(* Specifications: one per engine, over the same variables.                *)
(***************************************************************************)
Init == RS_Init /\ BT_Init /\ BP_Init /\ RMI_Init /\ FT_Init

\* In the specifications below an engine that is not run is instantiated once,
\* with ORDER 2 or epsilon 0.

RS_Build ==
    \E keys \in SortedInputs, bits \in 1 .. MaxRadixBits :
        RS_build(keys, bits) /\ UNCHANGED not_rs_vars

NextRS == RS_Build

\* A call of build with any vector, unsorted or with repeated keys.
RS_BuildArbitrary ==
    \E keys \in ArbitraryInputs, bits \in 1 .. MaxRadixBits :
        RS_build(keys, bits) /\ UNCHANGED not_rs_vars

\* The runs in which the three array-based engines are built from any vector.
NextArbitrary == RMI_LoadDataArbitrary \/ FT_BuildArbitrary \/ RS_BuildArbitrary

InitArbitrary == Init /\ bt_order = 2 /\ bp_order = 2

SpecArbitrary == InitArbitrary /\ [][NextArbitrary]_vars

InitRS == Init /\ bt_order = 2 /\ bp_order = 2 /\ ft_epsilon = 0

SpecRS == InitRS /\ [][NextRS]_vars

NextBT ==
    \/ \E key \in BT_MixKeys : BT_Insert(key)
    \/ \E key \in BT_MixKeys : BT_InsertAbort(key)
    \/ \E key \in BT_MixKeys : BT_Remove(key)

InitBT == Init /\ bp_order = 2 /\ ft_epsilon = 0

SpecBT == InitBT /\ [][NextBT]_vars

\* The runs of a BTree that is only inserted into.
NextBTInsert ==
    \/ \E key \in BT_Keys : BT_Insert(key)
    \/ \E key \in BT_Keys : BT_InsertAbort(key)

SpecBTInsert == InitBT /\ [][NextBTInsert]_vars

\* The runs of a BTree that mix inserts, also of keys that are in the tree
\* already, and removes.
NextBTCopies ==
    \/ \E key \in BT_CopyKeys : BT_Insert(key)
    \/ \E key \in BT_CopyKeys : BT_InsertCopy(key)
    \/ \E key \in BT_CopyKeys : BT_InsertAbort(key)
    \/ \E key \in BT_CopyKeys : BT_Remove(key)

SpecBTCopies == InitBT /\ [][NextBTCopies]_vars

NextBP == \E key \in BT_Keys : BP_Insert(key)

InitBP == Init /\ bt_order = 2 /\ ft_epsilon = 0

SpecBP == InitBP /\ [][NextBP]_vars

\* The runs of a BPlusTree that also inserts keys that are in the tree already.
NextBPCopies ==
    \/ \E key \in BP_CopyKeys : BP_Insert(key)
    \/ \E key \in BP_CopyKeys : BP_InsertCopy(key)

SpecBPCopies == InitBP /\ [][NextBPCopies]_vars

NextRMI == RMI_LoadData \/ RMI_LoadModel

InitRMI == Init /\ bt_order = 2 /\ bp_order = 2 /\ ft_epsilon = 0

SpecRMI == InitRMI /\ [][NextRMI]_vars

NextFT == FT_Build \/ FT_InsertInPlace

InitFT == Init /\ bt_order = 2 /\ bp_order = 2

\* The runs in which one FitingTree builds its segments up to MaxRebuilds times.
NextFTRebuild == FT_Rebuild \/ FT_InsertInPlaceRebuild

SpecFTRebuild == InitFT /\ [][NextFTRebuild]_vars

\* The runs in which a FitingTree is built once and then takes delta
\* insertions.
NextFTDelta == FT_BuildDelta \/ FT_InsertDelta

SpecFTDelta == InitFT /\ [][NextFTDelta]_vars

SpecFT == InitFT /\ [][NextFT]_vars

(***************************************************************************)
(* Claims                                                                  *)
(***************************************************************************)
\* C1: after build on a sorted vector of distinct keys with num_radix_bits >= 1,
\* lookup(k) returns the position of k for every key of D and -1 for every
\* other key.
C1_LookupFindsEveryKey ==
    IsStrictlySorted(rs_data) =>
        \A k \in QueryKeys : RS_lookup(k) = {TruePosition(rs_data, k)}

\* C10: after build on a sorted vector of distinct keys, range_query(lo, hi)
\* returns exactly the keys of D inside [lo, hi], ascending, and the empty
\* sequence when lo > hi.
C10_RangeQueryExact ==
    IsStrictlySorted(rs_data) =>
        \A lo \in QueryKeys, hi \in QueryKeys :
            RS_range_query(lo, hi) = {KeysInRange(rs_data, lo, hi)}

\* The number of levels of a tree.
RECURSIVE BT_Height(_)
BT_Height(node) ==
    IF node.is_leaf THEN 1 ELSE 1 + BT_Height(At(node.children, 0))

\* C4: starting from an empty BTree, after any sequence of inserts of pairwise
\* distinct keys, search(k) is true for every inserted key and false for every
\* key never inserted.
C4_SearchAfterInserts ==
    \A k \in 0 .. (BT_MaxKey + 1) : BT_search(k) <=> k \in bt_keys

\* C4 witness: the insert that fills an ORDER-2 tree of three levels, which
\* takes leaf splits, the split of the full internal root and root splits;
\* every inserted key is found.
C4_Witness ==
    /\ bt_last.op = "insert"
    /\ bt_order = 2
    /\ BT_Height(bt_root) = 3
    /\ bt_keys = BT_Keys
    /\ \A k \in bt_keys : BT_search(k)
    /\ ~BT_search(BT_MaxKey + 1)

\* C6: a remove(k) of a key that is in the tree (once) returns true, after it
\* search(k) is false, and search(j) is still true for every other key j that
\* was in the tree before the call.
C6_RemovePresentKey ==
    [][(bt_last'.op = "remove" /\ bt_last'.key \in bt_keys) =>
          /\ bt_last'.ret = TRUE
          /\ ~BT_search_internal(BT_T, bt_root', bt_last'.key)
          /\ \A j \in bt_keys \ {bt_last'.key} : BT_search_internal(BT_T, bt_root', j)
          /\ \A j \in BT_MixKeys \ bt_keys : ~BT_search_internal(BT_T, bt_root', j)]_vars

\* C6 witness: a remove that found its key in an internal node, took the
\* predecessor, merged on the
\* way down and collapsed the root, leaving every other key in place.
C6_Witness ==
    /\ bt_last.op = "remove"
    /\ bt_last.ret
    /\ {"predecessor", "merge_found", "collapse", "leaf"} \subseteq bt_last.ev
    /\ bt_keys # {}
    /\ ~BT_search(bt_last.key)
    /\ \A j \in bt_keys : BT_search(j)

\* The number of levels of a B+ tree.
RECURSIVE BP_Height(_, _)
BP_Height(nodes, node) ==
    IF nodes[node].is_leaf THEN 1 ELSE 1 + BP_Height(nodes, At(nodes[node].children, 0))

\* C5: starting from an empty BPlusTree, after any sequence of inserts of
\* pairwise distinct keys, search(k) is true for every inserted key and false
\* for every key never inserted.
C5_SearchAfterInserts ==
    \A k \in 0 .. (BT_MaxKey + 1) : BP_search(k) <=> k \in bp_keys

\* C5 witness: an ORDER-2 tree of three levels, which has taken leaf splits
\* and the split of a full internal node; every inserted key is found.
C5_Witness ==
    /\ bp_last.op = "insert"
    /\ bp_order = 2
    /\ BP_Height(bp_nodes, bp_root) = 3
    /\ bp_keys = BT_Keys
    /\ \A k \in bp_keys : BP_search(k)
    /\ ~BP_search(BT_MaxKey + 1)

\* The loaded model bounds the residual of every key of D: the true position
\* minus the rounded prediction lies in [min_error, max_error] of the
\* second-stage model the key is routed to.
RMI_ErrorBounded ==
    \A p \in 0 .. (Len(rmi_data) - 1) :
        LET key == At(rmi_data, p)
            model_idx == RMI_model_idx(key)
            residual == p - RMI_pred_pos(key)
        IN  /\ At(rmi_min_errors, model_idx) <= residual
            /\ residual <= At(rmi_max_errors, model_idx)

\* C3: with sorted distinct data loaded and either no model loaded or a model
\* that bounds the residual of every key of D, lookup(k) returns the position
\* of k for every key of D and -1 for every other key.
C3_LookupWithBoundedModel ==
    (IsStrictlySorted(rmi_data) /\ (rmi_branch_factor = 0 \/ RMI_ErrorBounded)) =>
        \A k \in QueryKeys : RMI_lookup(k) = {TruePosition(rmi_data, k)}

\* The set of the keys of a vector.
Elems(s) == {s[i] : i \in 1 .. Len(s)}

\* C2: after build(keys), for every epsilon >= 0, lookup(k) returns the
\* position of k in D for every k in keys and -1 for every other k (below the
\* smallest key, above the largest, in the gaps).
C2_LookupAfterBuild ==
    (ft_last.op = "build" /\ ~ft_corrupt) =>
        \A k \in FT_QueryKeys : FT_lookup(k) = {TruePosition(ft_data, k)}

\* C9: after build, for every epsilon >= 0 and all lo, hi, range_query(lo, hi)
\* returns exactly the keys of D inside [lo, hi], each once, ascending, and
\* the empty sequence when lo > hi.
C9_RangeQueryAfterBuild ==
    (ft_last.op = "build" /\ ~ft_corrupt) =>
        \A lo \in FT_QueryKeys, hi \in FT_QueryKeys :
            FT_range_query(lo, hi) = {KeysInRange(ft_data, lo, hi)}

\* C7: an insertInPlace of a key that is not in D, on a strictly ascending D
\* (as build and the inserts of new keys before it are to leave it), leaves D
\* strictly ascending with exactly the keys it had plus the new one, and
\* afterwards lookup returns the position in D of every key of D.
C7_InsertInPlaceNewKey ==
    [][(/\ ft_last'.op = "insertInPlace"
        /\ ft_data # <<>>
        /\ IsStrictlySorted(ft_data)
        /\ ft_last'.key \notin Elems(ft_data)) =>
          /\ ~ft_corrupt'
          /\ ft_data' = SortedSeq(Elems(ft_data) \cup {ft_last'.key})
          /\ \A k \in Elems(ft_data') : FT_lookup(k)' = {TruePosition(ft_data', k)}]_vars

\* C8: an insertInPlace of a key that is already in D returns false and leaves
\* D and the segments as they were.
C8_InsertInPlaceExistingKey ==
    [][(ft_last'.op = "insertInPlace" /\ ft_last'.key \in Elems(ft_data)) =>
          /\ ft_last'.ret = FALSE
          /\ ~ft_corrupt'
          /\ ft_data' = ft_data
          /\ ft_segments' = ft_segments]_vars

\* C11: with sorted distinct data and a loaded model that bounds the residual
\* of every key of D, range_query(lo, hi) returns exactly the keys of D inside
\* [lo, hi], ascending, for all lo and hi, and the empty sequence when
\* lo > hi.
C11_RangeQueryWithBoundedModel ==
    (IsStrictlySorted(rmi_data) /\ rmi_branch_factor # 0 /\ RMI_ErrorBounded) =>
        \A lo \in QueryKeys, hi \in QueryKeys :
            RMI_range_query(lo, hi) = KeysInRange(rmi_data, lo, hi)

\* C12: in every state reached by inserts and removes, range_search(lo, hi)
\* returns exactly the stored keys inside [lo, hi], one entry per stored
\* copy, ascending, and the empty sequence when lo > hi.
C12_RangeSearchExact ==
    ~bt_aborted =>
        \A lo \in 0 .. (BT_CopyMaxKey + 1), hi \in 0 .. (BT_CopyMaxKey + 1) :
            BT_range_search(lo, hi) = KeysInRange(bt_stored, lo, hi)

\* C12 witness: after a remove that found its key, a tree of three levels
\* that holds a key twice, one copy of it in the root, with a range query
\* that returns both copies.
C12_Witness ==
    /\ ~bt_aborted
    /\ bt_last.op = "remove" /\ bt_last.ret
    /\ BT_Height(bt_root) >= 3
    /\ \E k \in BT_CopyKeys :
         /\ \E i \in 1 .. Len(bt_root.keys) : bt_root.keys[i] = k
         /\ BT_range_search(k, k) = <<k, k>>

\* C13: after any sequence of inserts of distinct keys, range_search(lo, hi)
\* returns exactly the inserted keys inside [lo, hi], each once, ascending,
\* and the empty sequence when lo > hi.
C13_RangeSearchExact ==
    \A lo \in 0 .. (BT_MaxKey + 1), hi \in 0 .. (BT_MaxKey + 1) :
        BP_range_search(lo, hi) = KeysInRange(SortedSeq(bp_keys), lo, hi)

\* C13 witness: a tree of three levels that holds every key, where a query
\* that starts below the smallest key runs along the whole leaf chain.
C13_Witness ==
    /\ BP_Height(bp_nodes, bp_root) >= 3
    /\ bp_keys = BT_Keys
    /\ bp_nodes[BP_find_leaf(bp_nodes, bp_root, 0)].next_leaf # 0
    /\ Len(BP_range_search(0, BT_MaxKey)) = BT_MaxKey + 1

\* C14: after RMI::load_data, FitingTree::build and RadixSpline::build from
\* any vector, unsorted or with repeated keys, the key array of the engine is
\* strictly ascending (every distinct input key once).
C14_BuildSortsAndDeduplicates ==
    /\ IsStrictlySorted(rmi_data)
    /\ ~ft_corrupt => IsStrictlySorted(ft_data)
    /\ IsStrictlySorted(rs_data)

\* C15: a load_model that returns false (the file cannot be opened, or a
\* numeric field does not parse) leaves branch_factor, both model stages and
\* the error vectors as they were; and an RMI whose branch_factor is 0, as it
\* is from construction until a load succeeds, keeps it across every call
\* but a successful load_model and answers lookup by binary search over the
\* whole of D: the position of the key, or -1.
C15_FailedLoadKeepsModel ==
    /\ [][(rmi_last'.op = "load_model" /\ ~rmi_last'.ret) =>
             UNCHANGED <<rmi_branch_factor, rmi_stage1_model, rmi_stage2_models,
                         rmi_min_errors, rmi_max_errors>>]_vars
    /\ [][(rmi_branch_factor = 0 /\ ~(rmi_last'.op = "load_model" /\ rmi_last'.ret)) =>
             rmi_branch_factor' = 0]_vars
    /\ []((rmi_branch_factor = 0 /\ IsStrictlySorted(rmi_data)) =>
             \A k \in QueryKeys : RMI_lookup(k) = {TruePosition(rmi_data, k)})

\* C15 happens: a load has failed on an RMI that holds a loaded model and data.
C15_Witness ==
    /\ rmi_last = [op |-> "load_model", ret |-> FALSE]
    /\ rmi_branch_factor # 0
    /\ rmi_data # <<>>

\* The entries of a B-tree, in order.
RECURSIVE BT_entries(_), BT_entries_from(_, _)
BT_entries_from(node, i) ==
    IF i > Len(node.keys) THEN <<>>
    ELSE <<node.keys[i]>> \o BT_entries(node.children[i + 1]) \o BT_entries_from(node, i + 1)

BT_entries(node) ==
    IF node.is_leaf THEN node.keys
    ELSE BT_entries(node.children[1]) \o BT_entries_from(node, 1)

\* C16: in every state reached by builds (a second build on the same instance
\* included) and insertInPlace, the segment index holds exactly one entry
\* (start_key, i) per current segment i and nothing else, and for every key k
\* findSegmentIndex(k) is below segments.size() and, when some segment starts
\* at or below k, names the segment with the largest start_key <= k.
C16_SegmentIndexMatchesSegments ==
    ~ft_corrupt =>
        /\ BT_entries(ft_segment_index.root) =
              [i \in 1 .. Len(ft_segments) |->
                  [key |-> ft_segments[i].start_key, index |-> i - 1]]
        /\ ft_segments # <<>> =>
              \A k \in FT_QueryKeys :
                  LET idx == FT_findSegmentIndex(ft_segment_index.root, k)
                  IN  /\ idx < Len(ft_segments)
                      /\ \A j \in 1 .. Len(ft_segments) :
                            ft_segments[j].start_key <= k =>
                                /\ ft_segments[idx + 1].start_key <= k
                                /\ ft_segments[j].start_key <= ft_segments[idx + 1].start_key

\* The nodes below a node of a B-tree.
RECURSIVE BT_Descendants(_)
BT_Descendants(node) ==
    UNION {{node.children[i]} \cup BT_Descendants(node.children[i]) :
              i \in 1 .. Len(node.children)}

\* The addresses of the nodes below a node of a B+ tree.
RECURSIVE BP_Descendants(_, _)
BP_Descendants(nodes, node) ==
    UNION {{nodes[node].children[i]} \cup BP_Descendants(nodes, nodes[node].children[i]) :
              i \in 1 .. Len(nodes[node].children)}

\* C17: after any inserts into a BTree or a BPlusTree of any ORDER >= 2, every
\* node but the root holds at least ORDER-1 and at most 2*ORDER-1 keys (so
\* both halves that split_child leaves hold at least ORDER-1 keys).
C17_NodeOccupancy ==
    /\ ~bt_aborted =>
          \A node \in BT_Descendants(bt_root) :
              bt_order - 1 <= Len(node.keys) /\ Len(node.keys) <= 2 * bt_order - 1
    /\ \A node \in BP_Descendants(bp_nodes, bp_root) :
          bp_order - 1 <= Len(bp_nodes[node].keys)
              /\ Len(bp_nodes[node].keys) <= 2 * bp_order - 1

\* C18: after build, for every epsilon >= 0, every segment S predicts each
\* position i of [S.start_position, S.end_position] within S.max_error, that
\* is |round(S.slope * D[i] + S.intercept) - i| <= S.max_error for a value the
\* rounding can have, and S.max_error <= epsilon.
C18_SegmentErrorBound ==
    (ft_last.op = "build" /\ ~ft_corrupt) =>
        \A s \in 1 .. Len(ft_segments) :
            LET S == ft_segments[s]
            IN  /\ S.max_error <= ft_epsilon
                /\ \A i \in S.start_position .. S.end_position :
                      \E p \in FT_pred_pos(S.slope, At(ft_data, i), S.intercept) :
                          Abs(p - i) <= S.max_error

\* C19: after build and any insertInPlace calls the segments partition the
\* positions 0..|D|-1: the first starts at 0, each starts one past the end of
\* the one before, none is empty, and the last ends at |D|-1.
C19_SegmentsPartitionData ==
    (ft_last.op # "none" /\ ~ft_corrupt /\ ft_data # <<>>) =>
        /\ ft_segments # <<>>
        /\ ft_segments[1].start_position = 0
        /\ \A s \in 1 .. Len(ft_segments) :
              /\ ft_segments[s].start_position <= ft_segments[s].end_position
              /\ s > 1 => ft_segments[s].start_position = ft_segments[s - 1].end_position + 1
        /\ ft_segments[Len(ft_segments)].end_position = Len(ft_data) - 1

\* C20: after build, for every key k with min_key < k < max_key the spline
\* segment i that get_search_bound uses satisfies
\* spline_points[i].x <= k < spline_points[i+1].x, so the unsigned difference
\* k - spline_points[i].x does not wrap.
C20_SplineSegmentBrackets ==
    Len(rs_spline_points) >= 2 =>
        \A k \in QueryKeys :
            (rs_min_key < k /\ k < rs_max_key) =>
                LET i == SplineSegment(k)
                IN  /\ At(rs_spline_points, i).x <= k
                    /\ k < At(rs_spline_points, i + 1).x
                    /\ USub(k, At(rs_spline_points, i).x) = k - At(rs_spline_points, i).x

\* C21: when insertInPlace returns after an insert, no segment covers a range
\* (end_position - start_position) of more than twice the span it had when
\* the segments were last built: a segment that grows beyond that makes the
\* call rebuild the segments before it returns.
C21_RebuildWhenSpanDoubled ==
    (ft_last.op = "insertInPlace" /\ ft_last.ret /\ ~ft_corrupt) =>
        \A s \in 1 .. Len(ft_segments) :
            s <= Len(ft_built_spans) =>
                ft_segments[s].end_position - ft_segments[s].start_position
                    <= 2 * ft_built_spans[s]

\* C22: in every split made by an insert, the key promoted into the parent
\* is the middle key keys[mid] the full child had before the split, and the
\* read that fetches it uses an index inside the child's key vector as it is
\* when the read is made.
C22_SeparatorReadInBounds ==
    (bt_last.op = "insert" /\ ~bt_aborted) =>
        \A r \in 1 .. Len(bt_last.reads) :
            /\ 0 <= bt_last.reads[r].index
            /\ bt_last.reads[r].index < bt_last.reads[r].size

\* The addresses of the nodes of a B+ tree.
BP_TreeNodes == {bp_root} \cup BP_Descendants(bp_nodes, bp_root)

\* C23: after any sequence of inserts every internal node of the BPlusTree
\* has exactly len(keys) + 1 children, and no node is a child of two internal
\* nodes or twice a child of one.
C23_InternalNodesWellFormed ==
    /\ \A a \in BP_TreeNodes :
          ~bp_nodes[a].is_leaf => Len(bp_nodes[a].children) = Len(bp_nodes[a].keys) + 1
    /\ \A a \in BP_TreeNodes, b \in BP_TreeNodes :
          \A i \in 1 .. Len(bp_nodes[a].children), j \in 1 .. Len(bp_nodes[b].children) :
              bp_nodes[a].children[i] = bp_nodes[b].children[j] => (a = b /\ i = j)

\* C24: with a model loaded, for every query key (below the smallest key of D
\* and above the largest included) the positions that lookup and range_query
\* hand to the binary search satisfy 0 <= lower <= upper + 1 <= |D|.
C24_WindowInsideData ==
    (rmi_branch_factor # 0 /\ rmi_data # <<>>) =>
        \A k \in QueryKeys :
            LET w == RMI_window(k)
            IN  /\ 0 <= w.lower_bound
                /\ w.lower_bound <= w.upper_bound + 1
                /\ w.upper_bound + 1 <= Len(rmi_data)

\* C25: in every reachable state and for every query key (present, in a gap,
\* below the first key or above the last) the positions between which lookup
\* and insertInPlace search satisfy 0 <= lower <= upper + 1 <= |D|.
C25_WindowInsideData ==
    (~ft_corrupt /\ ft_data # <<>> /\ ft_segments # <<>>) =>
        \A k \in FT_QueryKeys :
            LET segment_idx == FT_findSegmentIndex(ft_segment_index.root, k)
            IN  segment_idx < Len(ft_segments) =>
                    LET segment == At(ft_segments, segment_idx)
                    IN  \A pred_pos \in FT_pred_pos(segment.slope, k, segment.intercept) :
                            LET w == FT_window(segment, pred_pos)
                            IN  /\ 0 <= w.lower_bound
                                /\ w.lower_bound <= w.upper_bound + 1
                                /\ w.upper_bound + 1 <= Len(ft_data)

\* C26: after build, whenever insertDelta(k) returns true, lookup(k) returns
\* a position p >= 0 with D[p] = k and range_query(k, k) returns the one key
\* k, whether k was merged into D or is still held in a delta buffer.
C26_InsertDeltaKeyFound ==
    (ft_last.op = "insertDelta" /\ ft_last.ret /\ ~ft_corrupt) =>
        /\ \A p \in FT_lookup(ft_last.key) : p >= 0 /\ p < Len(ft_data) /\ At(ft_data, p) = ft_last.key
        /\ FT_range_query(ft_last.key, ft_last.key) = {<<ft_last.key>>}

\* C27: after build, every return of insertDelta leaves at most a tenth of
\* |D| keys in the delta buffers together and at most FT_DELTA_SIZE in each,
\* and a call spills the buffer of the key only when that buffer was at its
\* capacity, and all the buffers only when the keys they hold, the new one
\* included, exceed a tenth of |D|.
C27_DeltaBuffersBoundedAndSpilledOnOverflow ==
    /\ [][(ft_last'.op = "insertDelta" /\ ~ft_corrupt' /\ ft_data # <<>> /\ ft_segments # <<>>) =>
            \A o \in FT_insertDelta(ft_last'.key) :
                (o.spilled # "none" /\ o.data = ft_data' /\ o.buffers = ft_delta_buffers') =>
                    LET segment_idx == FT_findSegmentIndex(ft_segment_index.root, ft_last'.key)
                    IN  IF o.spilled = "target"
                        THEN /\ segment_idx < Len(ft_delta_buffers)
                             /\ Len(At(ft_delta_buffers, segment_idx).keys)
                                    >= At(ft_delta_buffers, segment_idx).max_size
                        ELSE 10 * (FT_total_buffer_size(ft_delta_buffers) + 1) > Len(ft_data)]_vars
    /\ [](ft_last.op = "insertDelta" /\ ~ft_corrupt =>
            /\ 10 * FT_total_buffer_size(ft_delta_buffers) <= Len(ft_data)
            /\ \A b \in 1 .. Len(ft_delta_buffers) :
                   Len(ft_delta_buffers[b].keys) <= FT_DELTA_SIZE)

\* C28: after build on a sorted vector of at least two distinct keys with
\* num_radix_bits >= 1, radix_table[0] = 0, radix_table[b] <=
\* radix_table[b+1] for every bucket b, and radix_table[num_radix_buckets] =
\* |spline_points| - 1.
C28_RadixTableShape ==
    (Len(rs_data) >= 2 /\ IsStrictlySorted(rs_data) /\ rs_num_radix_bits >= 1) =>
        /\ At(rs_radix_table, 0) = 0
        /\ \A b \in 0 .. (rs_num_radix_buckets - 1) :
               At(rs_radix_table, b) <= At(rs_radix_table, b + 1)
        /\ At(rs_radix_table, rs_num_radix_buckets) = Len(rs_spline_points) - 1

\* The leftmost leaf below a node.
RECURSIVE BP_LeftmostLeaf(_, _)
BP_LeftmostLeaf(nodes, node) ==
    IF nodes[node].is_leaf THEN node ELSE BP_LeftmostLeaf(nodes, At(nodes[node].children, 0))

\* The leaves met by following next_leaf from a leaf, for at most fuel links;
\* the walk ends with 0 when it has reached a null link.
RECURSIVE BP_LeafChain(_, _, _)
BP_LeafChain(nodes, leaf, fuel) ==
    IF leaf = 0 THEN <<0>>
    ELSE IF fuel = 0 THEN <<>>
    ELSE <<leaf>> \o BP_LeafChain(nodes, nodes[leaf].next_leaf, fuel - 1)

\* The keys of the leaves of a walk, in the order of the walk.
RECURSIVE BP_ChainKeys(_, _)
BP_ChainKeys(nodes, chain) ==
    IF chain = <<>> \/ Head(chain) = 0 THEN <<>>
    ELSE nodes[Head(chain)].keys \o BP_ChainKeys(nodes, Tail(chain))

\* C29: after any sequence of inserts, copies of stored keys included, the
\* walk along next_leaf from the leftmost leaf ends at a null link, meets
\* every leaf of the tree and each once, and the keys of the leaves it meets,
\* in that order, are the inserted keys in ascending order, each as often as
\* it was inserted.
C29_LeafChainHoldsAllKeys ==
    LET chain == BP_LeafChain(bp_nodes, BP_LeftmostLeaf(bp_nodes, bp_root), Len(bp_nodes))
        leaves == SubSeq(chain, 1, Len(chain) - 1)
    IN  /\ chain # <<>>
        /\ chain[Len(chain)] = 0
        /\ \A i \in 1 .. Len(leaves), j \in 1 .. Len(leaves) : leaves[i] = leaves[j] => i = j
        /\ Elems(leaves) = {a \in BP_TreeNodes : bp_nodes[a].is_leaf}
        /\ BP_ChainKeys(bp_nodes, chain) = bp_stored

\* C29 witness: an ORDER-2 tree of three levels with at least four leaves
\* that holds a copy of a key; the walk from the leftmost leaf reads all the
\* keys stored.
C29_Witness ==
    /\ bp_order = 2
    /\ BP_Height(bp_nodes, bp_root) >= 3
    /\ Cardinality({a \in BP_TreeNodes : bp_nodes[a].is_leaf}) >= 4
    /\ Len(bp_stored) > Cardinality(bp_keys)
    /\ BP_ChainKeys(bp_nodes, BP_LeafChain(bp_nodes, BP_LeftmostLeaf(bp_nodes, bp_root),
                                           Len(bp_nodes))) = bp_stored

\* C30: after every load_model that returns true, branch_factor >= 1 and
\* stage2_models, min_errors and max_errors each hold exactly branch_factor
\* entries, so the clamped index of predict_position names an entry of each.
C30_LoadedModelHasBranchFactorEntries ==
    (rmi_last.op = "load_model" /\ rmi_last.ret) =>
        /\ rmi_branch_factor >= 1
        /\ Len(rmi_stage2_models) = rmi_branch_factor
        /\ Len(rmi_min_errors) = rmi_branch_factor
        /\ Len(rmi_max_errors) = rmi_branch_factor
        /\ \A k \in QueryKeys :
               /\ 0 <= RMI_model_idx(k)
               /\ RMI_model_idx(k) < Len(rmi_stage2_models)
               /\ RMI_model_idx(k) < Len(rmi_min_errors)
               /\ RMI_model_idx(k) < Len(rmi_max_errors)

====
